---- MODULE Spec2Model ----
(***************************************************************************)
(* Request plane of the gateway: the response cache (CacheManager), the    *)
(* batch processor (BatchProcessor) and the chat-completion handler (POST).*)
(* JavaScript runs one handler at a time; an async function is cut at its  *)
(* awaits, so every action below is one synchronous run of a handler or of *)
(* the continuation of an await.                                           *)
(***************************************************************************)
EXTENDS Integers, Sequences, FiniteSets, TLC

VARIABLES
    now,              \* the wall clock read by new Date()
    cache,            \* CacheManager.cache: fingerprint -> CachedResponse
    defaultOptions,   \* CacheManager.defaultOptions
    cacheCalls,       \* the cache lookups and stores performed so far
    lastCall,         \* the latest call a direct caller made on the CacheManager
    lastSet,          \* the latest call of setCachedResponse by a direct caller
    batchRequests,    \* BatchProcessor.batchRequests: id -> BatchRequest
    processingQueue,  \* BatchProcessor.processingQueue
    isProcessing,     \* BatchProcessor.isProcessing
    runs,             \* the suspended invocations of processNextBatch, by batch id
    chats,            \* the chat completions awaiting the upstream
    up,               \* the model ids whose health probe passes at present
    route,            \* the call of ModelRouter.routeRequest under way, or the last one
    endpoints,        \* CustomEndpointsManager.endpoints: id -> CustomEndpointConfig
    rewrite,          \* the latest call on the CustomEndpointsManager and what it returned
    created,          \* how many endpoint and webhook ids have been handed out
    webhooks,         \* WebhooksService.webhooks: id -> WebhookConfig
    events,           \* WebhooksService.events
    deliveries,       \* WebhooksService.deliveries
    hookCall,         \* the latest call on the WebhooksService and what it returned
    usageRecords,     \* AnalyticsService.records
    reply             \* the latest call of a route or of the AnalyticsService and its answer

vars == <<now, cache, defaultOptions, cacheCalls, lastCall, lastSet, batchRequests,
          processingQueue, isProcessing, runs, chats, up, route, endpoints, rewrite,
          created, webhooks, events, deliveries, hookCall, usageRecords, reply>>

routeVars == <<up, route, endpoints, rewrite>>

hookVars == <<webhooks, events, deliveries, hookCall>>

batchVars == <<batchRequests, processingQueue, isProcessing, runs>>

----------------------------------------------------------------------------
(* Bounds of the model *)

MaxTime == 2
MaxBatches == 2
MaxQueueBatches == 4
MaxCancelBatches == 3
MaxRequests == 13
MaxLiveRequests == 7
MaxFailures == 1
MaxChats == 2
MaxEndpoints == 1
MaxWebhooks == 2          \* webhooks created in a behaviour
MaxEvents == 2            \* events triggered in a behaviour
MaxRetryWebhooks == 1     \* webhooks whose deliveries are retried
MaxRetryEvents == 1       \* events whose deliveries are retried
MaxDeliveries == 3        \* delivery records beyond which no retry is asked
MaxUsage == 2             \* usage records logged by direct callers of the AnalyticsService
MaxIntakeChildren == 3    \* children posted to the batch route, in one body or more

(* Program constants.  The clock counts hours, so the default ttl of       *)
(* 3600000 ms is 1.                                                        *)

maxConcurrentRequests == 5
DEFAULT_TTL == 1

Models == {"m1", "m2"}
Users == {"alice", "bob"}
Priorities == {"high", "normal", "low"}

----------------------------------------------------------------------------
(* Values.  An optional field is <<>> when absent and <<v>> when present.  *)

Absent == <<>>
Some(v) == <<v>>

Request(model, content, temperature, stream) ==
    [model |-> model, content |-> content, temperature |-> temperature,
     stream |-> stream]

NoOptions == [ttl |-> Absent, ignoreTemperature |-> Absent, cachingEnabled |-> Absent]

DEFAULT_CACHE_OPTIONS ==
    [ttl |-> DEFAULT_TTL, ignoreTemperature |-> FALSE, cachingEnabled |-> TRUE]

\* { ...this.defaultOptions, ...options }
MergeOptions(defaults, options) ==
    [ttl |-> IF options.ttl = Absent THEN defaults.ttl ELSE options.ttl[1],
     ignoreTemperature |-> IF options.ignoreTemperature = Absent
                           THEN defaults.ignoreTemperature
                           ELSE options.ignoreTemperature[1],
     cachingEnabled |-> IF options.cachingEnabled = Absent
                        THEN defaults.cachingEnabled
                        ELSE options.cachingEnabled[1]]

\* The upstream's answer to a request, served by model m.
Response(m, request) == [model |-> m, for |-> request.content]

NoEntry == [kind |-> "none"]

----------------------------------------------------------------------------
(* CacheManager *)

\* The SHA-256 of the normalized request, taken as injective: the key is the
\* normalized request itself.  stream is dropped; temperature is dropped
\* when options.ignoreTemperature is set.
generateCacheKey(request, options) ==
    [model |-> request.model, content |-> request.content,
     temperature |-> IF options.ignoreTemperature THEN Absent
                     ELSE request.temperature]

\* A slip: an entry is still served at the instant it expires.
IsFreshInclusive(entry, t) == entry.expiresAt >= t

\* cachedItem.expiresAt > new Date()
IsFresh(entry, t) == entry.expiresAt > t

\* The call of getCachedResponse(request, options) on store c at time t:
\* the entry it returns (NoEntry for null), the store it leaves, and whether
\* it consulted the store.
getCachedResponse(c, defaults, request, options, t) ==
    LET mergedOptions == MergeOptions(defaults, options)
        cacheKey == generateCacheKey(request, mergedOptions)
    IN  IF ~mergedOptions.cachingEnabled
        THEN [result |-> NoEntry, cache |-> c, read |-> FALSE, key |-> cacheKey]
        ELSE IF cacheKey \in DOMAIN c /\ IsFresh(c[cacheKey], t)
        THEN [result |-> c[cacheKey], cache |-> c, read |-> TRUE, key |-> cacheKey]
        ELSE IF cacheKey \in DOMAIN c
        THEN [result |-> NoEntry,
              cache |-> [k \in DOMAIN c \ {cacheKey} |-> c[k]],
              read |-> TRUE, key |-> cacheKey]
        ELSE [result |-> NoEntry, cache |-> c, read |-> TRUE, key |-> cacheKey]

\* The entry setCachedResponse builds.
NewEntry(request, response, tokenUsage, ttl, t) ==
    [kind |-> "entry", modelId |-> request.model, response |-> response,
     createdAt |-> t, expiresAt |-> t + ttl, tokenUsage |-> tokenUsage]

\* A slip: an entry already stored under the fingerprint is kept.
setCachedResponseKeepFirst(c, defaults, request, response, tokenUsage, options, t) ==
    LET mergedOptions == MergeOptions(defaults, options)
        cacheKey == generateCacheKey(request, mergedOptions)
        entry == NewEntry(request, response, tokenUsage, mergedOptions.ttl, t)
    IN  IF ~mergedOptions.cachingEnabled
        THEN [cache |-> c, wrote |-> FALSE, key |-> cacheKey, ttl |-> mergedOptions.ttl]
        ELSE [cache |-> [k \in DOMAIN c \cup {cacheKey} |->
                            IF k \in DOMAIN c THEN c[k] ELSE entry],
              wrote |-> TRUE, key |-> cacheKey, ttl |-> mergedOptions.ttl]

\* The call of setCachedResponse(request, response, tokenUsage, options).
setCachedResponse(c, defaults, request, response, tokenUsage, options, t) ==
    LET mergedOptions == MergeOptions(defaults, options)
        cacheKey == generateCacheKey(request, mergedOptions)
        entry == NewEntry(request, response, tokenUsage, mergedOptions.ttl, t)
    IN  IF ~mergedOptions.cachingEnabled
        THEN [cache |-> c, wrote |-> FALSE, key |-> cacheKey, ttl |-> mergedOptions.ttl]
        ELSE [cache |-> [k \in DOMAIN c \cup {cacheKey} |->
                            IF k = cacheKey THEN entry ELSE c[k]],
              wrote |-> TRUE, key |-> cacheKey, ttl |-> mergedOptions.ttl]

\* this.defaultOptions = { ...this.defaultOptions, ...options }
setDefaultOptions(defaults, options) == MergeOptions(defaults, options)

\* JavaScript's truthiness of a string: every string but the empty one.
Truthy(str) == str # ""

\* invalidateCache(partialRequest) on store c: the store it leaves and the
\* number it returns.  partialRequest is Absent when no argument is passed,
\* else Some(p) where p.model is Absent or Some(id).  An entry goes when
\* partialRequest.model is truthy and equals the entry's modelId.
invalidateCache(c, partialRequest) ==
    IF partialRequest = Absent
    THEN [cache |-> [k \in {} |-> NoEntry], count |-> Cardinality(DOMAIN c)]
    ELSE LET model == partialRequest[1].model
             shouldInvalidate ==
                 {k \in DOMAIN c : /\ model # Absent
                                    /\ Truthy(model[1])
                                    /\ c[k].modelId = model[1]}
         IN  [cache |-> [k \in DOMAIN c \ shouldInvalidate |-> c[k]],
              count |-> Cardinality(shouldInvalidate)]

\* cleanupExpiredItems, the callback of setInterval(..., 300000).
cleanupExpiredItems(c, t) ==
    [k \in {k \in DOMAIN c : ~(c[k].expiresAt <= t)} |-> c[k]]

\* One record of cacheCalls.
CacheCall(op, request, via) == [op |-> op, stream |-> request.stream, via |-> via]

\* The record of a call of setCachedResponse at time t: mergedOptions are
\* the options in effect, put is what the call did.
SetCall(request, mergedOptions, response, put, t) ==
    [op |-> "set", request |-> request, options |-> mergedOptions,
     response |-> response, at |-> t, ttl |-> put.ttl, key |-> put.key,
     wrote |-> put.wrote]

----------------------------------------------------------------------------
(* AnalyticsService *)

\* The record a caller hands to logUsage.  cost is 0 or the price of the
\* tokens, which is 1 for every completion; cachingInfo is Absent when the
\* caller leaves it out, else Some(hit); no caller of the repository sets
\* endpointId.
Usage(userId, requested, actual, cost, success, cachingInfo) ==
    [userId |-> userId, model |-> [requested |-> requested, actual |-> actual],
     cost |-> cost, success |-> success, cachingInfo |-> cachingInfo,
     endpointId |-> Absent]

\* logUsage(record) on the records so far at time t: the record is stamped
\* and pushed.
logUsage(records, record, t) ==
    Append(records, [timestamp |-> t, userId |-> record.userId,
                     model |-> record.model, cost |-> record.cost,
                     success |-> record.success,
                     cachingInfo |-> record.cachingInfo,
                     endpointId |-> record.endpointId])

\* A slip: a cache hit is charged like a completion.
cacheHitUsagePriced(userId, request, cachedResponse) ==
    Usage(userId, request.model, cachedResponse.modelId, 1, TRUE, Some(TRUE))

\* The record the chat route logs when it answers from the cache.
cacheHitUsage(userId, request, cachedResponse) ==
    Usage(userId, request.model, cachedResponse.modelId, 0, TRUE, Some(TRUE))

----------------------------------------------------------------------------
(* BatchProcessor.  The synchronous runs of its methods are operators on a *)
(* record S of the fields they touch:                                      *)
(*   br (batchRequests), q (processingQueue), ip (isProcessing), runs,     *)
(*   cache, calls (cacheCalls).                                            *)

\* Let x be the value of v in F(x): v is evaluated once, however often F
\* uses it.
Bind(v, F(_)) == CHOOSE r \in {F(x) : x \in {v}} : TRUE

priorityValue(p) == CASE p = "high" -> 0 [] p = "normal" -> 1 [] p = "low" -> 2

NoValue == [kind |-> "none"]
Idle == [st |-> "idle", value |-> NoValue]
InFlight == [st |-> "inflight", value |-> NoValue]
Fulfilled(v) == [st |-> "fulfilled", value |-> v]
Rejected(message) == [st |-> "rejected", value |-> [error |-> message]]

\* r.error is truthy
HasError(r) == "error" \in DOMAIN r

NewBatch(id, userId, requests, priority, t) ==
    [id |-> id, userId |-> userId, requests |-> requests, createdAt |-> t,
     status |-> "pending", priority |-> priority,
     requestCount |-> Len(requests), completedCount |-> 0, failedCount |-> 0,
     completedAt |-> Absent, results |-> Absent, error |-> Absent,
     callbackUrl |-> Absent]

\* processRequest up to its first await: the cache lookup.  A hit fulfils
\* the child at once; a miss leaves it awaiting the router.
processRequestStart(S, request, defaults, t) ==
    Bind(getCachedResponse(S.cache, defaults, request, NoOptions, t),
         LAMBDA got :
            [S |-> [S EXCEPT !.cache = got.cache,
                             !.calls = IF got.read
                                       THEN @ \cup {CacheCall("get", request, "batch")}
                                       ELSE @],
             child |-> IF got.result # NoEntry THEN Fulfilled(got.result.response)
                       ELSE InFlight])

\* chunk.map(request => this.processRequest(request, batch.userId)) for the
\* children lo..hi of batch id, in order.
RECURSIVE dispatchChunk(_, _, _, _, _, _)
dispatchChunk(S, id, lo, hi, defaults, t) ==
    IF lo > hi THEN S
    ELSE Bind(processRequestStart(S, S.runs[id].batch.requests[lo], defaults, t),
              LAMBDA started :
                 Bind([started.S EXCEPT !.runs[id].children[lo] = started.child],
                      LAMBDA S1 : dispatchChunk(S1, id, lo + 1, hi, defaults, t)))

Min(a, b) == IF a < b THEN a ELSE b

\* A slip: the outcomes are pushed last child first.
chunkOutcomesReversed(children, lo, hi) ==
    [k \in 1..(hi - lo + 1) |-> children[hi - k + 1].value]

\* The outcomes of a chunk as pushed onto results, in the order of
\* chunkResults, which is the order of the chunk.
chunkOutcomes(children, lo, hi) ==
    [k \in 1..(hi - lo + 1) |-> children[lo + k - 1].value]

CountIn(results, P(_)) == Cardinality({k \in DOMAIN results : P(results[k])})
IsOk(r) == ~HasError(r)

\* The write of the completed batch, from the snapshot taken at pick-up.
completedBatch(batch, results, t) ==
    [batch EXCEPT !.status = "completed", !.completedAt = Some(t),
                  !.results = Some(results),
                  !.completedCount = CountIn(results, IsOk),
                  !.failedCount = CountIn(results, HasError)]

RECURSIVE processNextBatch(_, _, _)
RECURSIVE processLoop(_, _, _, _)

\* A slip: the completed batch is written but isProcessing is not reset and
\* the queue is not continued.
processLoopNoContinue(S, id, defaults, t) ==
    LET run == S.runs[id]
        n == Len(run.batch.requests)
    IN  IF run.i < n
        THEN dispatchChunk(S, id, run.i + 1, Min(run.i + maxConcurrentRequests, n),
                           defaults, t)
        ELSE [S EXCEPT
                !.br[id] = completedBatch(run.batch, run.results, t),
                !.runs = [b \in DOMAIN S.runs \ {id} |-> S.runs[b]]]

\* The for loop of processNextBatch for batch id, entered at offset i (its
\* run record holds the snapshot and the results so far): dispatch the
\* chunk at i and suspend, or, past the last chunk, complete the batch and
\* continue with the queue.
\* sendCallback(batchId): it writes a line to the log and changes nothing;
\* no webhook event is triggered and nothing is sent.
sendCallback(S, batchId) == S

processLoop(S, id, defaults, t) ==
    LET run == S.runs[id]
        n == Len(run.batch.requests)
    IN  IF run.i < n
        THEN dispatchChunk(S, id, run.i + 1, Min(run.i + maxConcurrentRequests, n),
                           defaults, t)
        ELSE Bind([S EXCEPT
                     !.br[id] = completedBatch(run.batch, run.results, t),
                     !.runs = [b \in DOMAIN S.runs \ {id} |-> S.runs[b]],
                     !.ip = FALSE],
                  LAMBDA S1 : processNextBatch(
                                  IF run.batch.callbackUrl # Absent
                                     /\ Truthy(run.batch.callbackUrl[1])
                                  THEN sendCallback(S1, id) ELSE S1,
                                  defaults, t))

\* processNextBatch up to its first await.
processNextBatch(S, defaults, t) ==
    IF S.q = <<>> THEN [S EXCEPT !.ip = FALSE]
    ELSE LET batchId == Head(S.q)
             S1 == [S EXCEPT !.ip = TRUE, !.q = Tail(S.q)]
         IN  IF batchId \notin DOMAIN S1.br
             THEN processNextBatch([S1 EXCEPT !.ip = FALSE], defaults, t)
             ELSE LET batch == S1.br[batchId]
                  IN  Bind([S1 EXCEPT
                              !.br[batchId].status = "processing",
                              !.runs = [b \in DOMAIN S1.runs \cup {batchId} |->
                                  IF b = batchId
                                  THEN [batch |-> batch, i |-> 0, results |-> <<>>,
                                        children |-> [k \in 1..Len(batch.requests) |-> Idle]]
                                  ELSE S1.runs[b]]],
                           LAMBDA S2 : processLoop(S2, batchId, defaults, t))

\* A slip: <= for <, so a batch jumps ahead of its equals.
insertIndexBeforeEquals(br, q, p) ==
    LET lower == {i \in 1..Len(q) :
                    q[i] \in DOMAIN br /\ priorityValue(p) <= priorityValue(br[q[i]].priority)}
    IN  IF lower = {} THEN Len(q) + 1
        ELSE CHOOSE i \in lower : \A j \in lower : i <= j

\* The index at which addToProcessingQueue inserts: before the first queued
\* batch of strictly lower priority, else at the end.
insertIndex(br, q, p) ==
    LET lower == {i \in 1..Len(q) :
                    q[i] \in DOMAIN br /\ priorityValue(p) < priorityValue(br[q[i]].priority)}
    IN  IF lower = {} THEN Len(q) + 1
        ELSE CHOOSE i \in lower : \A j \in lower : i <= j

InsertAt(q, i, x) == SubSeq(q, 1, i - 1) \o <<x>> \o SubSeq(q, i, Len(q))
RemoveAt(q, i) == SubSeq(q, 1, i - 1) \o SubSeq(q, i + 1, Len(q))

\* A slip: processing is triggered without looking at isProcessing.
addToProcessingQueueAlways(S, batchId, defaults, t) ==
    IF batchId \notin DOMAIN S.br THEN S
    ELSE Bind([S EXCEPT !.q = InsertAt(S.q, insertIndex(S.br, S.q,
                                         S.br[batchId].priority), batchId)],
              LAMBDA S1 : processNextBatch(S1, defaults, t))

\* A slip: the id is queued twice.
addToProcessingQueueTwice(S, batchId, defaults, t) ==
    IF batchId \notin DOMAIN S.br THEN S
    ELSE Bind([S EXCEPT !.q = InsertAt(InsertAt(S.q, insertIndex(S.br, S.q,
                                         S.br[batchId].priority), batchId),
                                       1, batchId)],
              LAMBDA S1 : IF ~S1.ip THEN processNextBatch(S1, defaults, t) ELSE S1)

addToProcessingQueue(S, batchId, defaults, t) ==
    IF batchId \notin DOMAIN S.br THEN S
    ELSE Bind([S EXCEPT !.q = InsertAt(S.q, insertIndex(S.br, S.q,
                                         S.br[batchId].priority), batchId)],
              LAMBDA S1 : IF ~S1.ip THEN processNextBatch(S1, defaults, t) ELSE S1)

createBatch(S, id, userId, requests, priority, defaults, t) ==
    Bind([S EXCEPT !.br = [b \in DOMAIN S.br \cup {id} |->
             IF b = id THEN NewBatch(id, userId, requests, priority, t)
             ELSE S.br[b]]],
         LAMBDA S1 : addToProcessingQueue(S1, id, defaults, t))

\* processingQueue.indexOf(id): 0 stands for -1.
indexOf(q, id) ==
    IF \E i \in 1..Len(q) : q[i] = id
    THEN CHOOSE i \in 1..Len(q) : q[i] = id /\ \A j \in 1..(i - 1) : q[j] # id
    ELSE 0

\* A slip: the batch is marked failed but left in the queue.
cancelBatchKeepQueued(S, id, userId, t) ==
    IF id \notin DOMAIN S.br \/ S.br[id].userId # userId
    THEN [S |-> S, result |-> FALSE]
    ELSE IF S.br[id].status # "pending"
    THEN [S |-> S, result |-> FALSE]
    ELSE [S |-> [S EXCEPT !.br[id] = [@ EXCEPT !.status = "failed",
                                         !.error = Some("Batch cancelled by user"),
                                         !.completedAt = Some(t)]],
          result |-> TRUE]

\* A slip: the status of the batch is not looked at.
cancelBatchAnyStatus(S, id, userId, t) ==
    IF id \notin DOMAIN S.br \/ S.br[id].userId # userId
    THEN [S |-> S, result |-> FALSE]
    ELSE LET index == indexOf(S.q, id)
             q1 == IF index # 0 THEN RemoveAt(S.q, index) ELSE S.q
         IN  [S |-> [S EXCEPT !.q = q1,
                              !.br[id] = [@ EXCEPT !.status = "failed",
                                             !.error = Some("Batch cancelled by user"),
                                             !.completedAt = Some(t)]],
              result |-> TRUE]

cancelBatch(S, id, userId, t) ==
    IF id \notin DOMAIN S.br \/ S.br[id].userId # userId
    THEN [S |-> S, result |-> FALSE]
    ELSE IF S.br[id].status # "pending"
    THEN [S |-> S, result |-> FALSE]
    ELSE LET index == indexOf(S.q, id)
             q1 == IF index # 0 THEN RemoveAt(S.q, index) ELSE S.q
         IN  [S |-> [S EXCEPT !.q = q1,
                              !.br[id] = [@ EXCEPT !.status = "failed",
                                             !.error = Some("Batch cancelled by user"),
                                             !.completedAt = Some(t)]],
              result |-> TRUE]

\* A slip: the counters start from zero at every chunk instead of from the
\* stored batch.
progressFromZero(currentBatch, outcomes) ==
    [currentBatch EXCEPT !.completedCount = CountIn(outcomes, IsOk),
                         !.failedCount = CountIn(outcomes, HasError)]

\* The batch with the chunk's outcomes added to its counters.
progress(currentBatch, outcomes) ==
    [currentBatch EXCEPT
        !.completedCount = currentBatch.completedCount + CountIn(outcomes, IsOk),
        !.failedCount = currentBatch.failedCount + CountIn(outcomes, HasError)]

\* The continuation of await Promise.allSettled(...) for the chunk of batch
\* id: fold the outcomes into the counters read from the stored batch,
\* persist them, and go round the loop.
chunkSettled(S, id, defaults, t) ==
    LET run == S.runs[id]
        n == Len(run.batch.requests)
        lo == run.i + 1
        hi == Min(run.i + maxConcurrentRequests, n)
        outcomes == chunkOutcomes(run.children, lo, hi)
        currentBatch == S.br[id]
    IN  Bind([S EXCEPT
                !.br[id] = progress(currentBatch, outcomes),
                !.runs[id].results = run.results \o outcomes,
                !.runs[id].i = run.i + maxConcurrentRequests],
             LAMBDA S1 : processLoop(S1, id, defaults, t))

----------------------------------------------------------------------------
(* The state the batch processor's runs work on, and its write-back.       *)

St == [br |-> batchRequests, q |-> processingQueue, ip |-> isProcessing,
       runs |-> runs, cache |-> cache, calls |-> cacheCalls]

Commit(S) ==
    /\ batchRequests' = S.br
    /\ processingQueue' = S.q
    /\ isProcessing' = S.ip
    /\ runs' = S.runs
    /\ cache' = S.cache
    /\ cacheCalls' = S.calls

\* Batch ids (batch_<time>_<random>) are fresh: the k-th batch gets id k.
NextId == Cardinality(DOMAIN batchRequests) + 1

\* A batch of n children asking for model m, child i with prompt i.
Children(n, m, stream) == [i \in 1..n |-> Request(m, i, Absent, stream)]

Init ==
    /\ now = 0
    /\ cache = [k \in {} |-> NoEntry]
    /\ defaultOptions = DEFAULT_CACHE_OPTIONS
    /\ cacheCalls = {}
    /\ lastCall = [op |-> "none"]
    /\ lastSet = [op |-> "none"]
    /\ batchRequests = [b \in {} |-> NoEntry]
    /\ processingQueue = <<>>
    /\ isProcessing = FALSE
    /\ runs = [b \in {} |-> NoEntry]
    /\ chats = [c \in {} |-> NoEntry]
    /\ up = {}
    /\ route = [status |-> "none"]
    /\ endpoints = [e \in {} |-> NoEntry]
    /\ rewrite = [op |-> "none"]
    /\ created = [endpoints |-> 0, webhooks |-> 0]
    /\ webhooks = [w \in {} |-> NoEntry]
    /\ events = <<>>
    /\ deliveries = <<>>
    /\ hookCall = [op |-> "none"]
    /\ usageRecords = <<>>
    /\ reply = [op |-> "none"]

(* BatchProcessor: the handlers *)

\* The children submitted so far, and those that have failed so far.
SumOver(f) ==
    LET RECURSIVE Sum(_)
        Sum(D) == IF D = {} THEN 0
                  ELSE LET b == CHOOSE x \in D : TRUE IN f[b] + Sum(D \ {b})
    IN  Sum(DOMAIN f)

Submitted == SumOver([b \in DOMAIN batchRequests |-> batchRequests[b].requestCount])

Failures ==
    SumOver([b \in DOMAIN batchRequests |->
        IF b \in DOMAIN runs
        THEN Cardinality({j \in DOMAIN runs[b].children :
                            runs[b].children[j].st = "rejected"})
        ELSE IF batchRequests[b].results # Absent
        THEN CountIn(batchRequests[b].results[1], HasError)
        ELSE 0])

\* createBatch(userId, requests, { priority, callbackUrl })
createBatchWithCallback(S, id, userId, requests, priority, callbackUrl, defaults, t) ==
    Bind([S EXCEPT !.br = [b \in DOMAIN S.br \cup {id} |->
             IF b = id
             THEN [NewBatch(id, userId, requests, priority, t)
                      EXCEPT !.callbackUrl = Some(callbackUrl)]
             ELSE S.br[b]]],
         LAMBDA S1 : addToProcessingQueue(S1, id, defaults, t))

CreateBatchWithCallback(userId, requests, priority, callbackUrl) ==
    /\ \E S \in {createBatchWithCallback(St, NextId, userId, requests, priority,
                                         callbackUrl, defaultOptions, now)} :
           Commit(S)
    /\ UNCHANGED <<now, defaultOptions, lastCall, lastSet, chats>>
    /\ UNCHANGED routeVars
    /\ UNCHANGED <<created, hookVars, usageRecords, reply>>

CreateBatch(userId, requests, priority) ==
    /\ \E S \in {createBatch(St, NextId, userId, requests, priority,
                             defaultOptions, now)} : Commit(S)
    /\ UNCHANGED <<now, defaultOptions, lastCall, lastSet, chats>>
    /\ UNCHANGED routeVars
    /\ UNCHANGED <<created, hookVars, usageRecords, reply>>

CancelBatch(id, userId) ==
    /\ \E r \in {cancelBatch(St, id, userId, now)} : Commit(r.S)
    /\ UNCHANGED <<now, defaultOptions, lastCall, lastSet, chats>>
    /\ UNCHANGED routeVars
    /\ UNCHANGED <<created, hookVars, usageRecords, reply>>

\* The callback of setInterval(..., 1000) in startProcessingLoop.
SchedulerTick ==
    /\ IF ~isProcessing /\ Len(processingQueue) > 0
       THEN \E S \in {processNextBatch(St, defaultOptions, now)} : Commit(S)
       ELSE UNCHANGED <<batchVars, cache, cacheCalls>>
    /\ UNCHANGED <<now, defaultOptions, lastCall, lastSet, chats>>
    /\ UNCHANGED routeVars
    /\ UNCHANGED <<created, hookVars, usageRecords, reply>>

\* Child j of the running batch id gets its answer from model m:
\* processRequest caches it unless the request streams, and fulfils.
ChildFulfils(id, j, m) ==
    /\ id \in DOMAIN runs
    /\ j \in DOMAIN runs[id].children
    /\ runs[id].children[j].st = "inflight"
    /\ LET request == runs[id].batch.requests[j]
           response == Response(m, request)
           put == setCachedResponse(cache, defaultOptions, request, response,
                                    "usage", NoOptions, now)
           stored == ~request.stream /\ put.wrote
       IN  /\ cache' = IF ~request.stream THEN put.cache ELSE cache
           /\ cacheCalls' = IF stored
                            THEN cacheCalls \cup {CacheCall("set", request, "batch")}
                            ELSE cacheCalls
           /\ runs' = [runs EXCEPT ![id].children[j] = Fulfilled(response)]
           /\ usageRecords' =
                  logUsage(usageRecords,
                           Usage(runs[id].batch.userId, request.model, m, 1,
                                 TRUE, Some(FALSE)),
                           now)
    /\ UNCHANGED <<now, defaultOptions, lastCall, lastSet, batchRequests,
                   processingQueue, isProcessing, chats>>
    /\ UNCHANGED routeVars
    /\ UNCHANGED <<created, hookVars, reply>>

\* The router finds no model for child j: processRequest rethrows.
ChildRejects(id, j) ==
    /\ id \in DOMAIN runs
    /\ j \in DOMAIN runs[id].children
    /\ runs[id].children[j].st = "inflight"
    /\ runs' = [runs EXCEPT ![id].children[j] =
                   Rejected("No available models found that match requirements")]
    /\ usageRecords' =
           LET request == runs[id].batch.requests[j]
           IN  logUsage(usageRecords,
                        Usage(runs[id].batch.userId, request.model, request.model,
                              0, FALSE, Absent),
                        now)
    /\ UNCHANGED <<now, cache, defaultOptions, cacheCalls, lastCall, lastSet,
                   batchRequests, processingQueue, isProcessing, chats>>
    /\ UNCHANGED routeVars
    /\ UNCHANGED <<created, hookVars, reply>>

\* Every child of the chunk has settled: Promise.allSettled resolves and
\* processNextBatch goes on.
ChunkSettled(id) ==
    /\ id \in DOMAIN runs
    /\ \A j \in DOMAIN runs[id].children : runs[id].children[j].st # "inflight"
    /\ \E S \in {chunkSettled(St, id, defaultOptions, now)} : Commit(S)
    /\ UNCHANGED <<now, defaultOptions, lastCall, lastSet, chats>>
    /\ UNCHANGED routeVars
    /\ UNCHANGED <<created, hookVars, usageRecords, reply>>

(* CacheManager: the calls of a direct caller *)

GetCachedResponse(request, options) ==
    LET got == getCachedResponse(cache, defaultOptions, request, options, now)
    IN  /\ cache' = got.cache
        /\ cacheCalls' = IF got.read
                         THEN cacheCalls \cup {CacheCall("get", request, "client")}
                         ELSE cacheCalls
        /\ lastCall' =
              [op |-> "get", at |-> now,
               sameAsSet |-> /\ lastSet.op = "set"
                             /\ lastSet.request = request
                             /\ lastSet.options =
                                    MergeOptions(defaultOptions, options),
               enabled |-> MergeOptions(defaultOptions, options).cachingEnabled,
               key |-> got.key,
               had |-> IF got.key \in DOMAIN cache THEN cache[got.key] ELSE NoEntry,
               result |-> got.result,
               follows |-> lastCall.op = "set" /\ lastSet.at = now]
        /\ UNCHANGED <<now, defaultOptions, lastSet, batchVars, chats>>
        /\ UNCHANGED routeVars
        /\ UNCHANGED <<created, hookVars, usageRecords, reply>>

SetCachedResponse(request, response, options) ==
    LET put == setCachedResponse(cache, defaultOptions, request, response, "usage",
                                 options, now)
    IN  /\ cache' = put.cache
        /\ cacheCalls' = IF put.wrote
                         THEN cacheCalls \cup {CacheCall("set", request, "client")}
                         ELSE cacheCalls
        /\ lastSet' = SetCall(request, MergeOptions(defaultOptions, options),
                               response, put, now)
        /\ lastCall' = [op |-> "set"]
        /\ UNCHANGED <<now, defaultOptions, batchVars, chats>>
        /\ UNCHANGED routeVars
        /\ UNCHANGED <<created, hookVars, usageRecords, reply>>

SetDefaultOptions(options) ==
    /\ defaultOptions' = setDefaultOptions(defaultOptions, options)
    /\ lastCall' = [op |-> "setDefaultOptions"]
    /\ UNCHANGED <<now, cache, cacheCalls, lastSet, batchVars, chats>>
    /\ UNCHANGED routeVars
    /\ UNCHANGED <<created, hookVars, usageRecords, reply>>

InvalidateCache(partialRequest) ==
    /\ cache' = invalidateCache(cache, partialRequest).cache
    /\ lastCall' = [op |-> "invalidateCache",
                    count |-> invalidateCache(cache, partialRequest).count]
    /\ UNCHANGED <<now, defaultOptions, cacheCalls, lastSet, batchVars, chats>>
    /\ UNCHANGED routeVars
    /\ UNCHANGED <<created, hookVars, usageRecords, reply>>

CleanupExpiredItems ==
    /\ cache' = cleanupExpiredItems(cache, now)
    /\ lastCall' = [op |-> "cleanupExpiredItems"]
    /\ UNCHANGED <<now, defaultOptions, cacheCalls, lastSet, batchVars, chats>>
    /\ UNCHANGED routeVars
    /\ UNCHANGED <<created, hookVars, usageRecords, reply>>

\* An hour passes.
Tick ==
    /\ now' = now + 1
    /\ UNCHANGED <<cache, defaultOptions, cacheCalls, lastCall, lastSet, batchVars,
                   chats>>
    /\ UNCHANGED routeVars
    /\ UNCHANGED <<created, hookVars, usageRecords, reply>>

(* POST /api/v1/chat *)

\* POST up to its await of the upstream: the lookup unless the request
\* streams, and the reply at once on a hit.
ChatPost(request) ==
    LET got == getCachedResponse(cache, defaultOptions, request, NoOptions, now)
        consulted == ~request.stream
        hit == consulted /\ got.result # NoEntry
        c == Cardinality(DOMAIN chats) + 1
    IN  /\ cache' = IF consulted THEN got.cache ELSE cache
        /\ cacheCalls' = IF consulted /\ got.read
                         THEN cacheCalls \cup {CacheCall("get", request, "chat")}
                         ELSE cacheCalls
        /\ chats' = [k \in DOMAIN chats \cup {c} |->
                        IF k = c
                        THEN [userId |-> "anonymous", request |-> request,
                              hit |-> hit,
                              st |-> IF hit THEN "answered" ELSE "awaiting",
                              response |-> IF hit THEN Some(got.result.response)
                                           ELSE Absent,
                              answeredAt |-> IF hit THEN Some(now) ELSE Absent]
                        ELSE chats[k]]
        /\ usageRecords' =
               IF hit
               THEN logUsage(usageRecords,
                             cacheHitUsage("anonymous", request, got.result), now)
               ELSE usageRecords
        /\ UNCHANGED <<now, defaultOptions, lastCall, lastSet, batchVars>>
        /\ UNCHANGED routeVars
        /\ UNCHANGED <<created, hookVars, reply>>

\* The upstream answers chat c with model m: a streaming request gets the
\* stream, any other has its response cached and returned.
ChatCompletes(c, m) ==
    /\ c \in DOMAIN chats
    /\ chats[c].st = "awaiting"
    /\ LET request == chats[c].request
           response == Response(m, request)
           put == setCachedResponse(cache, defaultOptions, request, response,
                                    "usage", NoOptions, now)
           stored == ~request.stream /\ put.wrote
       IN  /\ cache' = IF ~request.stream THEN put.cache ELSE cache
           /\ cacheCalls' = IF stored
                            THEN cacheCalls \cup {CacheCall("set", request, "chat")}
                            ELSE cacheCalls
           /\ chats' = [chats EXCEPT ![c].st = IF request.stream THEN "streamed"
                                               ELSE "answered",
                                     ![c].response = Some(response),
                                     ![c].answeredAt = Some(now)]
           /\ usageRecords' =
                  logUsage(usageRecords,
                           Usage(chats[c].userId, request.model, m,
                                 IF request.stream THEN 0 ELSE 1, TRUE,
                                 IF request.stream THEN Absent ELSE Some(FALSE)),
                           now)
    /\ UNCHANGED <<now, defaultOptions, lastCall, lastSet, batchVars>>
    /\ UNCHANGED routeVars
    /\ UNCHANGED <<created, hookVars, reply>>

\* The upstream throws: the catch replies with the error.
ChatFails(c) ==
    /\ c \in DOMAIN chats
    /\ chats[c].st = "awaiting"
    /\ chats' = [chats EXCEPT ![c].st = "failed"]
    /\ UNCHANGED <<now, cache, defaultOptions, cacheCalls, lastCall, lastSet,
                   batchVars>>
    /\ UNCHANGED routeVars
    /\ UNCHANGED <<created, hookVars, usageRecords, reply>>

----------------------------------------------------------------------------
(* Batch life cycle: batches of one chunk and of three chunks.             *)

BatchSizes == {1, 2 * maxConcurrentRequests + 1}
MaxChildren == 2 * maxConcurrentRequests + 1

Next ==
    \/ \E u \in {"alice"}, n \in BatchSizes, p \in {"normal"} :
          /\ NextId <= MaxBatches
          /\ Submitted + n <= MaxRequests
          /\ CreateBatch(u, Children(n, "m1", FALSE), p)
    \/ \E id \in DOMAIN batchRequests : CancelBatch(id, "alice")
    \/ SchedulerTick
    \/ \E id \in DOMAIN runs, j \in 1..MaxChildren : ChildFulfils(id, j, "m1")
    \/ \E id \in DOMAIN runs, j \in 1..MaxChildren :
          Failures < MaxFailures /\ ChildRejects(id, j)
    \/ \E id \in DOMAIN runs : ChunkSettled(id)

Spec == Init /\ [][Next]_vars

\* Batches of one chunk and of two chunks, under the scheduling the runtime
\* gives: every dispatched child gets its answer unless it is rejected
\* first, every resolved await is continued, the interval timer fires.
LiveNext ==
    \/ \E n \in {1, maxConcurrentRequests + 1}, p \in {"high", "normal"} :
          /\ NextId <= MaxBatches
          /\ Submitted + n <= MaxLiveRequests
          /\ CreateBatch("alice", Children(n, "m1", FALSE), p)
    \/ \E id \in DOMAIN batchRequests : CancelBatch(id, "alice")
    \/ SchedulerTick
    \/ \E id \in DOMAIN runs, j \in 1..MaxChildren : ChildFulfils(id, j, "m1")
    \/ \E id \in DOMAIN runs, j \in 1..MaxChildren :
          Failures < MaxFailures /\ ChildRejects(id, j)
    \/ \E id \in DOMAIN runs : ChunkSettled(id)

FairSpec ==
    /\ Init /\ [][LiveNext]_vars
    /\ WF_vars(\E id \in 1..MaxBatches, j \in 1..MaxChildren :
                  ChildFulfils(id, j, "m1"))
    /\ WF_vars(\E id \in 1..MaxBatches : ChunkSettled(id))
    /\ WF_vars(SchedulerTick)

----------------------------------------------------------------------------
(* Properties of the batch life cycle *)

Terminal(b) == b.status \in {"completed", "failed"}

\* C1: in every state a reader can see, completedCount + failedCount <=
\* requestCount for every batch, and from one state to the next neither
\* counter of a batch goes down while the batch is not terminal.
C1_CountersBoundedAndMonotonic ==
    [][\A b \in DOMAIN batchRequests' :
          /\ batchRequests'[b].completedCount + batchRequests'[b].failedCount
                <= batchRequests'[b].requestCount
          /\ (b \in DOMAIN batchRequests /\ ~Terminal(batchRequests'[b]))
                => /\ batchRequests'[b].completedCount >= batchRequests[b].completedCount
                   /\ batchRequests'[b].failedCount >= batchRequests[b].failedCount]_vars

\* A batch still processing whose counters have been persisted twice, with a
\* failure among them.
C1_Witness ==
    \E b \in DOMAIN batchRequests :
        /\ batchRequests[b].status = "processing"
        /\ batchRequests[b].completedCount + batchRequests[b].failedCount
              = 2 * maxConcurrentRequests
        /\ batchRequests[b].failedCount = 1

InFlightOf(id) ==
    Cardinality({j \in DOMAIN runs[id].children : runs[id].children[j].st = "inflight"})

InFlightTotal == SumOver([id \in DOMAIN runs |-> InFlightOf(id)])

\* C2: the children dispatched and not yet settled, over all batches, never
\* number more than maxConcurrentRequests, and at most one batch is being
\* processed.
C2_BoundedConcurrency ==
    /\ InFlightTotal <= maxConcurrentRequests
    /\ Cardinality(DOMAIN runs) <= 1
    /\ Cardinality({b \in DOMAIN batchRequests :
                       batchRequests[b].status = "processing"}) <= 1

\* A full chunk in flight while another batch waits in the queue.
C2_Witness ==
    /\ InFlightTotal = maxConcurrentRequests
    /\ Len(processingQueue) > 0

StatusEdges ==
    {<<"pending", "processing">>, <<"processing", "completed">>,
     <<"processing", "failed">>, <<"pending", "failed">>}

\* C3: the status of a batch changes only along pending -> processing,
\* processing -> completed, processing -> failed, pending -> failed; a new
\* batch is pending, or processing when the scheduler picked it up in the
\* call that created it.
C3_StatusTransitions ==
    [][\A b \in DOMAIN batchRequests' :
          IF b \in DOMAIN batchRequests
          THEN batchRequests'[b].status # batchRequests[b].status
                  => <<batchRequests[b].status, batchRequests'[b].status>> \in StatusEdges
          ELSE batchRequests'[b].status \in {"pending", "processing"}]_vars

\* One batch cancelled while pending, the other completed by the scheduler.
C3_Witness ==
    /\ \E b \in DOMAIN batchRequests :
          batchRequests[b].status = "failed"
    /\ \E b \in DOMAIN batchRequests :
          batchRequests[b].status = "completed" /\ batchRequests[b].failedCount > 0

\* C6: at the step that completes a batch, results has requestCount entries,
\* entry i is what child i settled with (the response to requests[i], or
\* {error: message} when child i was rejected), and the counters add up to
\* requestCount.
C6_ResultsAligned ==
    [][\A b \in DOMAIN batchRequests :
          (batchRequests[b].status # "completed" /\ batchRequests'[b].status = "completed")
          => LET done == batchRequests'[b]
                 results == done.results[1]
                 children == runs[b].children
             IN  /\ done.results # Absent
                 /\ Len(results) = done.requestCount
                 /\ \A i \in 1..done.requestCount :
                       /\ results[i] = children[i].value
                       /\ children[i].st = "rejected" => HasError(results[i])
                       /\ children[i].st = "fulfilled"
                             => results[i].for = done.requests[i].content
                 /\ done.completedCount + done.failedCount = done.requestCount
                 /\ done.failedCount =
                       Cardinality({i \in 1..done.requestCount :
                                       children[i].st = "rejected"})]_vars

\* A completed batch of three chunks with a failed child in its first chunk.
C6_Witness ==
    \E b \in DOMAIN batchRequests :
        /\ batchRequests[b].status = "completed"
        /\ batchRequests[b].requestCount = MaxChildren
        /\ HasError(batchRequests[b].results[1][2])
        /\ ~HasError(batchRequests[b].results[1][1])

----------------------------------------------------------------------------
(* The queue: one-child batches of every priority.                        *)

QueueNext ==
    \/ \E p \in Priorities :
          /\ NextId <= MaxQueueBatches
          /\ CreateBatch("alice", Children(1, "m1", FALSE), p)
    \/ \E id \in DOMAIN batchRequests : CancelBatch(id, "alice")
    \/ SchedulerTick
    \/ \E id \in DOMAIN runs : ChildFulfils(id, 1, "m1")
    \/ \E id \in DOMAIN runs : ChunkSettled(id)

QueueSpec == Init /\ [][QueueNext]_vars

(* Cancellation: two owners, cancels by either of them of any id, known or *)
(* not.                                                                    *)

CancelNext ==
    \/ \E u \in Users, p \in Priorities :
          /\ NextId <= MaxCancelBatches
          /\ CreateBatch(u, Children(1, "m1", FALSE), p)
    \/ \E id \in 1..(MaxCancelBatches + 1), u \in Users : CancelBatch(id, u)
    \/ SchedulerTick
    \/ \E id \in DOMAIN runs : ChildFulfils(id, 1, "m1")
    \/ \E id \in DOMAIN runs : ChunkSettled(id)

CancelSpec == Init /\ [][CancelNext]_vars

Range(q) == {q[i] : i \in 1..Len(q)}

\* a goes before b: higher priority, or the same priority and created first
\* (ids are given in creation order).
Before(br, a, b) ==
    \/ priorityValue(br[a].priority) < priorityValue(br[b].priority)
    \/ /\ br[a].priority = br[b].priority
       /\ a < b

QueueSorted(br, q) == \A i, j \in 1..Len(q) : i < j => Before(br, q[i], q[j])

\* C4: after every step the queue is sorted by priority and, within a
\* priority, by creation; and a batch the scheduler picks goes before every
\* batch still waiting.
C4_PriorityThenFifo ==
    [][/\ QueueSorted(batchRequests', processingQueue')
       /\ \A b \in DOMAIN runs' \ DOMAIN runs :
             \A c \in Range(processingQueue') : Before(batchRequests', b, c)]_vars

\* Three batches wait behind a running one; the one created last is first
\* in the queue and two of the same priority follow in creation order.
C4_Witness ==
    /\ Len(processingQueue) = 3
    /\ processingQueue[1] = 4
    /\ batchRequests[processingQueue[2]].priority
          = batchRequests[processingQueue[3]].priority

Cancelled(b) == b.error = Some("Batch cancelled by user")

\* C5: in every state, cancelBatch(id, owner) by the owner returns true iff
\* the batch is pending; a successful call leaves the batch failed with
\* completedAt set and out of the queue, and changes nothing else; a call
\* that returns false changes nothing; and a cancelled batch is never
\* processed: it stays failed, off the queue, without a run or results.
C5_CancelOnlyPending ==
    /\ \A id \in 1..(MaxCancelBatches + 1), u \in Users :
          \E r \in {cancelBatch(St, id, u, now)} :
             /\ (id \in DOMAIN batchRequests /\ batchRequests[id].userId = u)
                   => (r.result <=> batchRequests[id].status = "pending")
             /\ (id \notin DOMAIN batchRequests \/ batchRequests[id].userId # u)
                   => ~r.result
             /\ r.result =>
                   /\ r.S.br[id].status = "failed"
                   /\ r.S.br[id].completedAt # Absent
                   /\ id \notin Range(r.S.q)
                   /\ \A b \in DOMAIN batchRequests \ {id} : r.S.br[b] = batchRequests[b]
                   /\ \A i, j \in 1..Len(r.S.q) :
                         i < j => indexOf(processingQueue, r.S.q[i])
                                     < indexOf(processingQueue, r.S.q[j])
                   /\ Range(r.S.q) = Range(processingQueue) \ {id}
                   /\ r.S.runs = runs
             /\ ~r.result => r.S = St
    /\ \A b \in DOMAIN batchRequests :
          Cancelled(batchRequests[b]) =>
             /\ batchRequests[b].status = "failed"
             /\ batchRequests[b].completedAt # Absent
             /\ batchRequests[b].results = Absent
             /\ b \notin Range(processingQueue)
             /\ b \notin DOMAIN runs

\* A batch was cancelled by its owner while it waited, the batch created
\* after it has been processed since, and the other owner has a batch too.
C5_Witness ==
    \E b, c \in DOMAIN batchRequests :
        /\ Cancelled(batchRequests[b])
        /\ c > b
        /\ batchRequests[c].status = "completed"
        /\ batchRequests[c].userId # batchRequests[b].userId

----------------------------------------------------------------------------
(* The cache under direct calls: requests that differ in temperature only, *)
(* every combination of the options a caller can pass, the clock moving.   *)

Ttls == {0}

CacheRequests == {Request("m1", 1, t, FALSE) : t \in {Absent, Some(1)}}

\* What a caller passes with a call: nothing, or a ttl.
CallOptions ==
    {[NoOptions EXCEPT !.ttl = t] : t \in {Absent} \cup {Some(x) : x \in Ttls}}

\* What setDefaultOptions is given.
DefaultsUpdates ==
    {[NoOptions EXCEPT !.ignoreTemperature = Some(TRUE)],
     [NoOptions EXCEPT !.cachingEnabled = Some(FALSE)],
     [NoOptions EXCEPT !.cachingEnabled = Some(TRUE)]}

CacheNext ==
    \/ \E r \in CacheRequests, o \in CallOptions : GetCachedResponse(r, o)
    \/ \E r \in CacheRequests, o \in CallOptions, m \in Models :
          SetCachedResponse(r, Response(m, r), o)
    \/ \E o \in DefaultsUpdates : SetDefaultOptions(o)
    \/ \E p \in {Absent, Some([model |-> Some("m1")])} : InvalidateCache(p)
    \/ CleanupExpiredItems
    \/ now < MaxTime /\ Tick

CacheSpec == Init /\ [][CacheNext]_vars

\* C8: a Get made with caching enabled returns the entry stored under the
\* request's fingerprint exactly when there is one and now < expiresAt; when
\* the entry it finds has expiresAt <= now it returns nothing and the entry
\* is gone from the store.
C8_GetReturnsFreshOnly ==
    lastCall.op = "get" /\ lastCall.enabled =>
        /\ lastCall.result # NoEntry <=>
              lastCall.had # NoEntry /\ lastCall.at < lastCall.had.expiresAt
        /\ lastCall.result # NoEntry => lastCall.result = lastCall.had
        /\ lastCall.had # NoEntry /\ lastCall.had.expiresAt <= lastCall.at =>
              lastCall.result = NoEntry /\ lastCall.key \notin DOMAIN cache

\* A Get at the very instant its entry expires: nothing is returned and the
\* entry has been removed.
C8_Witness ==
    /\ lastCall.op = "get"
    /\ lastCall.enabled
    /\ lastCall.had # NoEntry
    /\ lastCall.had.expiresAt = lastCall.at
    /\ lastCall.had.createdAt < lastCall.at
    /\ lastCall.result = NoEntry
    /\ lastCall.key \notin DOMAIN cache

\* C9: with caching enabled and the same options in effect on both calls,
\* a Get(r) that immediately follows Set(r, resp) returns resp, and a Get(r)
\* made once ttl has elapsed since the latest Set(r) returns nothing.
C9_SetThenGet ==
    /\ lastCall.op = "get"
    /\ lastCall.enabled
    /\ lastCall.sameAsSet
    => /\ lastCall.follows =>
            /\ lastCall.result # NoEntry
            /\ lastCall.result.response = lastSet.response
       /\ lastCall.at >= lastSet.at + lastSet.ttl => lastCall.result = NoEntry

----------------------------------------------------------------------------
(* Streaming: chat completions and one-child batches, streaming or not,    *)
(* all with the same prompt.                                               *)

StreamNext ==
    \/ \E stream \in BOOLEAN :
          /\ Cardinality(DOMAIN chats) < MaxChats
          /\ ChatPost(Request("m1", 1, Absent, stream))
    \/ \E c \in DOMAIN chats, m \in Models : ChatCompletes(c, m)
    \/ \E c \in DOMAIN chats : ChatFails(c)
    \/ \E stream \in BOOLEAN :
          /\ NextId <= MaxBatches
          /\ CreateBatch("alice", Children(1, "m1", stream), "normal")
    \/ SchedulerTick
    \/ \E id \in DOMAIN runs, m \in Models : ChildFulfils(id, 1, m)
    \/ \E id \in DOMAIN runs : ChunkSettled(id)

StreamSpec == Init /\ [][StreamNext]_vars

\* C10: no lookup and no store of the response cache is ever made for a
\* request with stream = true, by the chat handler or for a batch child.
C10_StreamBypassesCache ==
    \A call \in cacheCalls : ~call.stream

\* The fingerprint a request gets when no options are passed with the call.
Fingerprint(request) ==
    generateCacheKey(request, MergeOptions(defaultOptions, NoOptions))

\* C11: the store holds one entry per fingerprint, and a request that missed
\* and now stores its response leaves exactly its own response under its
\* fingerprint, whatever a concurrent request with the same fingerprint
\* stored before: the later Set wins.
C11_LastWriterWins ==
    [][/\ \A c \in DOMAIN chats :
             chats[c].st = "awaiting" /\ chats'[c].st = "answered" =>
                /\ Fingerprint(chats[c].request) \in DOMAIN cache'
                /\ cache'[Fingerprint(chats[c].request)].response
                      = chats'[c].response[1]
       /\ \A id \in DOMAIN runs \cap DOMAIN runs' :
             \A j \in DOMAIN runs[id].children :
                /\ runs[id].children[j].st = "inflight"
                /\ runs'[id].children[j].st = "fulfilled"
                /\ ~runs[id].batch.requests[j].stream
                => /\ Fingerprint(runs[id].batch.requests[j]) \in DOMAIN cache'
                   /\ cache'[Fingerprint(runs[id].batch.requests[j])].response
                         = runs'[id].children[j].value]_vars

\* Two chat completions with the same fingerprint both missed, both were
\* answered, by different models, and the store holds one of the answers.
C11_Witness ==
    \E c, d \in DOMAIN chats :
        /\ c # d
        /\ ~chats[c].hit /\ ~chats[d].hit
        /\ chats[c].st = "answered" /\ chats[d].st = "answered"
        /\ Fingerprint(chats[c].request) = Fingerprint(chats[d].request)
        /\ chats[c].response # chats[d].response
        /\ Fingerprint(chats[c].request) \in DOMAIN cache
        /\ cache[Fingerprint(chats[c].request)].response = chats[d].response[1]

----------------------------------------------------------------------------
(* Invalidation by model.  Entries are stored for requests of three model
   ids, the empty id among them: ModelRequestSchema takes any string as the
   model, and setCachedResponse stores request.model as the modelId. *)

InvalidateModels == {"m1", "m2", ""}

InvalidateRequests == {Request(m, "q", Absent, FALSE) : m \in InvalidateModels}

\* The arguments of invalidateCache: none, a partial request without a
\* model, a partial request with a model.
PartialRequests ==
    {Absent, Some([model |-> Absent])}
        \cup {Some([model |-> Some(m)]) : m \in InvalidateModels}

InvalidateNext ==
    \/ \E r \in InvalidateRequests, m \in Models :
          SetCachedResponse(r, Response(m, r), NoOptions)
    \/ \E p \in PartialRequests : InvalidateCache(p)
    \/ now < MaxTime /\ Tick

InvalidateSpec == Init /\ [][InvalidateNext]_vars

\* The entries of store c whose modelId is the model of partial request p.
MatchedBy(c, p) ==
    {k \in DOMAIN c : p.model # Absent /\ c[k].modelId = p.model[1]}

\* C12: invalidateCache(partial) removes exactly the entries whose stored
\* modelId equals partial.model, leaves every other entry as it was and
\* returns the number removed; invalidateCache() removes every entry and
\* returns the number of entries that were stored.
C12_InvalidateByModel ==
    [][\A p \in PartialRequests : InvalidateCache(p) =>
          IF p = Absent
          THEN /\ DOMAIN cache' = {}
               /\ lastCall'.count = Cardinality(DOMAIN cache)
          ELSE /\ DOMAIN cache' = DOMAIN cache \ MatchedBy(cache, p[1])
               /\ \A k \in DOMAIN cache' : cache'[k] = cache[k]
               /\ lastCall'.count = Cardinality(MatchedBy(cache, p[1]))]_vars

----------------------------------------------------------------------------
(* lib/models: the catalog *)

\* One catalog entry.  The prices are in cents per million tokens.
ModelInfo(id, inputPricing, outputPricing, supportedFeatures) ==
    [id |-> id, inputPricing |-> inputPricing, outputPricing |-> outputPricing,
     supportedFeatures |-> supportedFeatures]

\* The catalog in the order of its keys.
models ==
    << ModelInfo("openai/gpt-4o", 500, 1500,
                 {"vision", "functionCalling", "toolUse", "json"}),
       ModelInfo("openai/gpt-4-turbo", 1000, 3000, {"functionCalling", "json"}),
       ModelInfo("openai/gpt-3.5-turbo", 50, 150, {"functionCalling", "json"}),
       ModelInfo("anthropic/claude-3-opus", 1500, 7500,
                 {"vision", "functionCalling", "toolUse", "json"}),
       ModelInfo("anthropic/claude-3-sonnet", 300, 1500,
                 {"vision", "functionCalling", "toolUse", "json"}),
       ModelInfo("anthropic/claude-3-haiku", 25, 125,
                 {"vision", "functionCalling", "json"}),
       ModelInfo("google/gemini-1.5-pro", 700, 2100,
                 {"vision", "functionCalling", "toolUse", "json"}),
       ModelInfo("google/gemini-1.5-flash", 150, 500,
                 {"vision", "functionCalling", "json"}),
       ModelInfo("meta-llama/llama-3-70b-instruct", 90, 270, {}) >>

\* Object.keys(models)
ModelIds == [i \in DOMAIN models |-> models[i].id]

Catalog == {models[i].id : i \in DOMAIN models}

\* getModelById(id); only asked for ids of the catalog.
getModelById(id) == models[CHOOSE i \in DOMAIN models : models[i].id = id]

getRecommendedFallbacks(modelId) ==
    CASE modelId = "openai/gpt-4o" ->
            <<"anthropic/claude-3-opus", "openai/gpt-4-turbo", "google/gemini-1.5-pro">>
      [] modelId = "anthropic/claude-3-opus" ->
            <<"openai/gpt-4o", "anthropic/claude-3-sonnet", "google/gemini-1.5-pro">>
      [] modelId = "google/gemini-1.5-pro" ->
            <<"openai/gpt-4o", "anthropic/claude-3-opus", "anthropic/claude-3-sonnet">>
      [] modelId = "anthropic/claude-3-sonnet" ->
            <<"anthropic/claude-3-haiku", "openai/gpt-3.5-turbo",
              "meta-llama/llama-3-70b-instruct">>
      [] modelId = "openai/gpt-3.5-turbo" ->
            <<"anthropic/claude-3-haiku", "meta-llama/llama-3-70b-instruct",
              "google/gemini-1.5-flash">>
      [] modelId = "anthropic/claude-3-haiku" ->
            <<"openai/gpt-3.5-turbo", "meta-llama/llama-3-70b-instruct",
              "google/gemini-1.5-flash">>
      [] OTHER -> <<>>

\* A ModelRequest as the router reads it: the requested model, the route
\* (Absent when the field is missing), the fallbacks (Absent when missing)
\* and what the feature test looks at.
ModelRequest(model, routeField, fallbacks, image, functions, function_call, tools, json) ==
    [model |-> model, route |-> routeField, fallbacks |-> fallbacks,
     image |-> image, functions |-> functions, function_call |-> function_call,
     tools |-> tools, json |-> json]

----------------------------------------------------------------------------
(* ModelRouter *)

getRequiredFeatures(request) ==
    (IF request.image THEN {"vision"} ELSE {})
        \cup (IF request.functions \/ request.function_call
              THEN {"functionCalling"} ELSE {})
        \cup (IF request.tools THEN {"toolUse"} ELSE {})
        \cup (IF request.json THEN {"json"} ELSE {})

modelSupportsFeatures(modelId, requiredFeatures) ==
    /\ modelId \in Catalog
    /\ requiredFeatures \subseteq getModelById(modelId).supportedFeatures

getRecommendedFallbacksForFeatures(modelId, requiredFeatures) ==
    SelectSeq(getRecommendedFallbacks(modelId),
              LAMBDA fallbackId : modelSupportsFeatures(fallbackId, requiredFeatures))

\* A slip: the catalog's other ids are tried before the fallbacks.
handleFallbackRoutingCatalogFirst(primaryModel, fallbacks) ==
    <<primaryModel>>
        \o SelectSeq(ModelIds,
                     LAMBDA id : id # primaryModel /\ id \notin Range(fallbacks))
        \o fallbacks

\* The ids handleFallbackRouting probes, in order: the primary model, the
\* fallbacks, then the catalog's other ids.
handleFallbackRouting(primaryModel, fallbacks) ==
    <<primaryModel>> \o fallbacks
        \o SelectSeq(ModelIds,
                     LAMBDA id : id # primaryModel /\ id \notin Range(fallbacks))

cost(model) == model.inputPricing + model.outputPricing

\* The catalog entries sorted by ascending cost; the sort is stable.
RECURSIVE sortByCost(_)
sortByCost(entries) ==
    IF entries = <<>> THEN <<>>
    ELSE LET i == CHOOSE i \in DOMAIN entries :
                    \A j \in DOMAIN entries :
                        \/ cost(entries[i]) < cost(entries[j])
                        \/ cost(entries[i]) = cost(entries[j]) /\ i <= j
         IN  <<entries[i]>>
                 \o sortByCost(SubSeq(entries, 1, i - 1)
                                   \o SubSeq(entries, i + 1, Len(entries)))

\* A slip: the sort is left out, the eligible models stay in catalog order.
findLowestCostModelUnsorted(requiredFeatures) ==
    LET modelsByCost ==
            SelectSeq(models,
                LAMBDA model : modelSupportsFeatures(model.id, requiredFeatures))
    IN  [i \in DOMAIN modelsByCost |-> modelsByCost[i].id]

\* The ids findLowestCostModel probes, in order.
findLowestCostModel(requiredFeatures) ==
    LET modelsByCost ==
            sortByCost(SelectSeq(models,
                LAMBDA model : modelSupportsFeatures(model.id, requiredFeatures)))
    IN  [i \in DOMAIN modelsByCost |-> modelsByCost[i].id]

\* The ids findFastestModel probes, in order.
findFastestModel ==
    <<"anthropic/claude-3-haiku", "openai/gpt-3.5-turbo", "google/gemini-1.5-flash",
      "meta-llama/llama-3-70b-instruct", "anthropic/claude-3-sonnet",
      "openai/gpt-4o", "google/gemini-1.5-pro", "anthropic/claude-3-opus">>

\* The ids findHighestQualityModel probes, in order.
findHighestQualityModel ==
    <<"anthropic/claude-3-opus", "openai/gpt-4o", "google/gemini-1.5-pro",
      "openai/gpt-4-turbo", "anthropic/claude-3-sonnet", "google/gemini-1.5-flash",
      "meta-llama/llama-3-70b-instruct", "anthropic/claude-3-haiku",
      "openai/gpt-3.5-turbo">>

\* const { model, route = 'default', fallbacks = [] } = request
routeOf(request) == IF request.route = Absent THEN "default" ELSE request.route[1]

fallbacksOf(request) ==
    IF request.fallbacks = Absent THEN <<>> ELSE request.fallbacks[1]

\* The error each strategy throws when its candidates are used up.
noModelError(strategy) ==
    CASE strategy = "lowest-cost" ->
            "No available low-cost models found that match requirements"
      [] strategy = "fastest" ->
            "No available fast models found that match requirements"
      [] strategy = "highest-quality" ->
            "No available high quality models found that match requirements"
      [] OTHER -> "No available models found that match requirements"

NoModelErrors ==
    {noModelError(strategy) :
        strategy \in {"default", "fallback", "lowest-cost", "fastest", "highest-quality"}}

\* A routeRequest call that goes on probing the ids of todo in order.  at
\* is "routeRequest" while the probe of line 48 is awaited and
\* "sequence" inside a loop over candidates.
Probing(call, at, todo) ==
    IF todo = <<>>
    THEN [call EXCEPT !.status = "failed", !.at = at, !.todo = <<>>,
                      !.error = noModelError(call.strategy)]
    ELSE [call EXCEPT !.status = "probing", !.at = at, !.todo = todo]

\* routeRequest(request) up to its first await.
routeRequest(origin, body, request) ==
    LET requiredFeatures == getRequiredFeatures(request)
        call == [origin |-> origin, body |-> body, request |-> request,
                 strategy |-> routeOf(request),
                 requiredFeatures |-> requiredFeatures,
                 status |-> "probing", at |-> "sequence", todo |-> <<>>,
                 probed |-> <<>>, result |-> "", error |-> "",
                 routed_through |-> ""]
    IN  CASE routeOf(request) = "fallback" ->
                Probing(call, "sequence",
                        handleFallbackRouting(request.model, fallbacksOf(request)))
          [] routeOf(request) = "lowest-cost" ->
                Probing(call, "sequence", findLowestCostModel(requiredFeatures))
          [] routeOf(request) = "fastest" ->
                Probing(call, "sequence", findFastestModel)
          [] routeOf(request) = "highest-quality" ->
                Probing(call, "sequence", findHighestQualityModel)
          [] OTHER -> Probing(call, "routeRequest", <<request.model>>)

\* The call goes on when isModelAvailable(Head(todo)) resolves to available.
isModelAvailable(call, available) ==
    LET modelId == Head(call.todo)
        request == call.request
        supports == modelSupportsFeatures(modelId, call.requiredFeatures)
        seen == [call EXCEPT !.probed = Append(call.probed, <<modelId, available>>)]
        return == [seen EXCEPT !.status = "returned", !.result = modelId, !.todo = <<>>]
    IN  IF call.at = "routeRequest"
        THEN IF available
             THEN IF supports THEN return
                  ELSE Probing(seen, "sequence",
                           handleFallbackRouting(request.model,
                               getRecommendedFallbacksForFeatures(
                                   request.model, call.requiredFeatures)))
             ELSE Probing(seen, "sequence",
                      handleFallbackRouting(request.model,
                          IF Len(fallbacksOf(request)) > 0
                          THEN fallbacksOf(request)
                          ELSE getRecommendedFallbacks(request.model)))
        ELSE IF available /\ (call.strategy = "lowest-cost" \/ supports)
             THEN return
             ELSE Probing(seen, "sequence", Tail(call.todo))

(* AIClient and the chat route *)

\* The request AIClient.complete hands to the router for the chat route's
\* body: the requested model, the messages flattened to text, and the
\* options the route passes on (tools and functions unless it streams).
completeModelRequest(body, stream) ==
    ModelRequest(body.model, Absent, Absent, FALSE,
                 ~stream /\ body.functions, FALSE, ~stream /\ body.tools, FALSE)

\* const [provider] = modelId.split('/')
providerOf(modelId) ==
    CASE modelId \in {"openai/gpt-4o", "openai/gpt-4-turbo", "openai/gpt-3.5-turbo"} ->
            "openai"
      [] modelId \in {"anthropic/claude-3-opus", "anthropic/claude-3-sonnet",
                      "anthropic/claude-3-haiku"} -> "anthropic"
      [] modelId \in {"google/gemini-1.5-pro", "google/gemini-1.5-flash"} -> "google"
      [] OTHER -> "meta-llama"

\* AIClient.complete after the router's answer: the provider's client or
\* the error.  The route's formatResponseForApi joins the provider and the
\* model name again into routed_through.
complete(call) ==
    IF providerOf(call.result) \in {"openai", "anthropic"}
    THEN [call EXCEPT !.status = "served", !.routed_through = call.result]
    ELSE [call EXCEPT !.status = "failed", !.error = "Unsupported provider"]

\* processRequest after the router's answer: the response of actualModelId.
processRequest(call) ==
    [call EXCEPT !.status = "served", !.routed_through = call.result]

----------------------------------------------------------------------------
(* Routing: one routeRequest call at a time, a step per probe.  up holds
   the models whose probe passes throughout the call; the probe of any
   other id resolves either way, as Math.random decides. *)

\* A caller starts routeRequest.  origin is "router" for a direct call,
\* "chat" for AIClient.complete under POST /api/v1/chat, "batch" for
\* BatchProcessor.processRequest.
RouteRequest(origin, body, stream, healthy) ==
    /\ route.status = "none"
    /\ up' = healthy
    /\ route' = routeRequest(origin, body,
                             IF origin = "chat"
                             THEN completeModelRequest(body, stream) ELSE body)
    /\ UNCHANGED <<now, cache, defaultOptions, cacheCalls, lastCall, lastSet,
                   batchVars, chats, endpoints, rewrite>>
    /\ UNCHANGED <<created, hookVars, usageRecords, reply>>

\* The pending probe resolves.
IsModelAvailable(available) ==
    /\ route.status = "probing"
    /\ Head(route.todo) \in up => available
    /\ route' = isModelAvailable(route, available)
    /\ UNCHANGED <<now, cache, defaultOptions, cacheCalls, lastCall, lastSet,
                   batchVars, chats, up, endpoints, rewrite>>
    /\ UNCHANGED <<created, hookVars, usageRecords, reply>>

\* AIClient.complete goes on with the routed model.
Complete ==
    /\ route.status = "returned" /\ route.origin = "chat"
    /\ route' = complete(route)
    /\ UNCHANGED <<now, cache, defaultOptions, cacheCalls, lastCall, lastSet,
                   batchVars, chats, up, endpoints, rewrite>>
    /\ UNCHANGED <<created, hookVars, usageRecords, reply>>

\* processRequest goes on with the routed model.
ProcessRequest ==
    /\ route.status = "returned" /\ route.origin = "batch"
    /\ route' = processRequest(route)
    /\ UNCHANGED <<now, cache, defaultOptions, cacheCalls, lastCall, lastSet,
                   batchVars, chats, up, endpoints, rewrite>>
    /\ UNCHANGED <<created, hookVars, usageRecords, reply>>

\* The call's promise settles with its caller; the router keeps nothing of
\* a finished call.
Settle ==
    /\ \/ route.status \in {"served", "failed"}
       \/ route.status = "returned" /\ route.origin = "router"
    /\ route' = [status |-> "none"]
    /\ up' = {}
    /\ UNCHANGED <<now, cache, defaultOptions, cacheCalls, lastCall, lastSet,
                   batchVars, chats, endpoints, rewrite>>
    /\ UNCHANGED <<created, hookVars, usageRecords, reply>>

\* The health of the providers during one call.
Healthy ==
    SUBSET {"openai/gpt-4o", "openai/gpt-4-turbo", "openai/gpt-3.5-turbo"}
        \cup {{"anthropic/claude-3-haiku"}, Catalog}

Strategies ==
    {Absent} \cup {Some(strategy) : strategy \in
        {"default", "fallback", "lowest-cost", "fastest", "highest-quality"}}

FallbackLists ==
    {Absent, Some(<<"openai/gpt-4o", "openai/gpt-3.5-turbo">>),
     Some(<<"anthropic/claude-3-haiku">>)}

\* What a request can ask of the model: nothing, an image, tools, or a
\* function call with JSON mode.
FeatureNeeds ==
    {[image |-> FALSE, functions |-> FALSE, function_call |-> FALSE,
      tools |-> FALSE, json |-> FALSE],
     [image |-> TRUE, functions |-> FALSE, function_call |-> FALSE,
      tools |-> FALSE, json |-> FALSE],
     [image |-> FALSE, functions |-> FALSE, function_call |-> FALSE,
      tools |-> TRUE, json |-> FALSE],
     [image |-> FALSE, functions |-> FALSE, function_call |-> TRUE,
      tools |-> FALSE, json |-> TRUE]}

RequestedModels ==
    {"openai/gpt-4o", "openai/gpt-4-turbo", "anthropic/claude-3-sonnet",
     "acme/unknown"}

RouterRequests ==
    {ModelRequest(model, strategy, fallbacks, f.image, f.functions,
                  f.function_call, f.tools, f.json) :
        model \in RequestedModels, strategy \in Strategies,
        fallbacks \in FallbackLists, f \in FeatureNeeds}

RouterNext ==
    \/ \E request \in RouterRequests, healthy \in Healthy :
          RouteRequest("router", request, FALSE, healthy)
    \/ \E available \in BOOLEAN : IsModelAvailable(available)
    \/ Settle

RouterSpec == Init /\ [][RouterNext]_vars

----------------------------------------------------------------------------
(* Serving: requests routed for POST /api/v1/chat and for batch children. *)

ServedModels == {"openai/gpt-4o", "openai/gpt-4-turbo", "anthropic/claude-3-sonnet"}

ServedStrategies == {Absent, Some("fallback")}

ServedFallbacks == {Absent, Some(<<"openai/gpt-4o", "openai/gpt-3.5-turbo">>)}

ServedRequests ==
    {ModelRequest(model, strategy, fallbacks, f.image, f.functions,
                  f.function_call, f.tools, f.json) :
        model \in ServedModels, strategy \in ServedStrategies,
        fallbacks \in ServedFallbacks, f \in FeatureNeeds}

ServeNext ==
    \/ \E body \in ServedRequests, stream \in BOOLEAN, healthy \in Healthy :
          RouteRequest("chat", body, stream, healthy)
    \/ \E request \in ServedRequests, healthy \in Healthy :
          RouteRequest("batch", request, FALSE, healthy)
    \/ \E available \in BOOLEAN : IsModelAvailable(available)
    \/ Complete
    \/ ProcessRequest
    \/ Settle

ServeSpec == Init /\ [][ServeNext]_vars

\* C13: the model that served a response, for a chat completion or for a
\* batch child, supports every feature the request requires: vision for an
\* image part, function calling for functions or function_call, tool use
\* for tools, JSON mode for response_format json_object.
C13_ServedModelSupportsFeatures ==
    route.status = "served" =>
        modelSupportsFeatures(route.result, getRequiredFeatures(route.body))

----------------------------------------------------------------------------
(* Claims on direct routeRequest calls, checked under RouterSpec. *)

\* The catalog models eligible for a call: those that support every
\* feature its request requires.
Eligible(call) ==
    {id \in Catalog : modelSupportsFeatures(id, call.requiredFeatures)}

\* C14: under every strategy routeRequest fails with the no-model-available
\* error only if no eligible catalog model is healthy: when an eligible
\* catalog model passes its probe throughout the call, a model is returned,
\* also when the requested id is not in the catalog.
C14_FailsOnlyIfNoneHealthy ==
    route.status = "failed" /\ route.error \in NoModelErrors =>
        Eligible(route) \cap up = {}

\* The ids whose probe failed among the first n probes of a call.
FailedIn(call, n) == {call.probed[i][1] : i \in {i \in 1..n : ~call.probed[i][2]}}

\* C15: within one routeRequest call a model whose probe has failed is out
\* of the candidates: it is not probed again and it is not the model the
\* call returns.
C15_FailedNeverProbedAgain ==
    route.status # "none" =>
        /\ \A j \in DOMAIN route.probed :
              route.probed[j][1] \notin FailedIn(route, j - 1)
        /\ route.status = "returned" =>
              route.result \notin FailedIn(route, Len(route.probed))

\* The ids of the first n probes of a call that were eligible and passed.
PassedIn(call, n) ==
    {call.probed[i][1] : i \in {i \in 1..n :
        /\ call.probed[i][2]
        /\ modelSupportsFeatures(call.probed[i][1], call.requiredFeatures)}}

\* The call returned the model of its last probe, which is eligible and
\* passed, and no earlier probe was of an eligible model that passed.
ReturnsFirstEligibleHealthy(call) ==
    LET n == Len(call.probed)
    IN  /\ n > 0
        /\ call.result = call.probed[n][1]
        /\ call.result \in PassedIn(call, n)
        /\ PassedIn(call, n - 1) = {}

\* The probes of the call went through the ids of order, in order, before
\* any other id, and after them only through other catalog ids.
ProbedInOrder(call, order) ==
    \A i \in DOMAIN call.probed :
        IF i <= Len(order) THEN call.probed[i][1] = order[i]
        ELSE call.probed[i][1] \in Catalog \ Range(order)

\* C16: with route = fallback the candidates are the requested model, then
\* the request's fallbacks in list order, then the other catalog models;
\* the first of them that is eligible and healthy is returned, so a later
\* one is returned only if every earlier one was ineligible or failed its
\* probe.
C16_FallbackOrder ==
    route.status # "none" /\ route.strategy = "fallback" =>
        /\ ProbedInOrder(route, <<route.request.model>> \o fallbacksOf(route.request))
        /\ route.status = "returned" => ReturnsFirstEligibleHealthy(route)

C16_Witness ==
    /\ route.status = "returned" /\ route.strategy = "fallback"
    /\ route.request.model = "anthropic/claude-3-sonnet"
    /\ fallbacksOf(route.request) = <<"openai/gpt-4o", "openai/gpt-3.5-turbo">>
    /\ route.result = "openai/gpt-3.5-turbo"
    /\ route.probed = <<<<"anthropic/claude-3-sonnet", FALSE>>,
                        <<"openai/gpt-4o", FALSE>>,
                        <<"openai/gpt-3.5-turbo", TRUE>>>>

\* The sequence without the repeats of an element it already holds.
RECURSIVE Distinct(_)
Distinct(seq) ==
    IF seq = <<>> THEN <<>>
    ELSE LET front == Distinct(SubSeq(seq, 1, Len(seq) - 1))
             last == seq[Len(seq)]
         IN  IF last \in Range(front) THEN front ELSE Append(front, last)

\* The eligible candidates the call has considered so far, in the order of
\* their first probe.
Considered(call) ==
    Distinct(SelectSeq([i \in DOMAIN call.probed |-> call.probed[i][1]],
                       LAMBDA id : modelSupportsFeatures(id, call.requiredFeatures)))

\* The call considers the eligible ids of order, in order, and only then
\* other eligible catalog models.
ConsidersInOrder(call, order) ==
    LET want == Distinct(SelectSeq(order,
                    LAMBDA id : modelSupportsFeatures(id, call.requiredFeatures)))
        seen == Considered(call)
    IN  \A i \in DOMAIN seen :
            IF i <= Len(want) THEN seen[i] = want[i]
            ELSE seen[i] \in Catalog \ Range(want)

\* C17: with route = default, or no route, the candidates are the requested
\* model, then its catalog-recommended fallbacks in order, then any other
\* eligible model; the request's own fallbacks play no part, and the first
\* eligible and healthy candidate in that order is returned.
C17_DefaultOrder ==
    route.status # "none" /\ route.strategy = "default" =>
        /\ ConsidersInOrder(route, <<route.request.model>>
                                       \o getRecommendedFallbacks(route.request.model))
        /\ route.status = "returned" => ReturnsFirstEligibleHealthy(route)

\* The eligible catalog models strictly cheaper than the model of id.
Cheaper(call, id) ==
    {other \in Eligible(call) : cost(getModelById(other)) < cost(getModelById(id))}

----------------------------------------------------------------------------
(* Claims on served requests, checked under ServeSpec. *)

\* The ids of the list that support what the body requires and pass their
\* probe throughout the call.
HealthyEligibleOf(call, list) ==
    {id \in Range(list) \cap up :
        modelSupportsFeatures(id, getRequiredFeatures(call.body))}

\* C19: a chat completion is routed with the strategy and the fallbacks of
\* its request: when the requested model is unavailable and the request has
\* route = fallback with a fallbacks list that holds a healthy eligible
\* model, the request is served by the first healthy eligible model of the
\* list and routed_through names it.
C19_ChatRoutedAsRequested ==
    /\ route.status = "served" /\ route.origin = "chat"
    /\ routeOf(route.body) = "fallback"
    /\ route.body.model \in FailedIn(route, Len(route.probed))
    /\ route.result # route.body.model
    /\ HealthyEligibleOf(route, fallbacksOf(route.body)) # {}
    => LET list == fallbacksOf(route.body)
       IN  /\ route.result \in Range(list)
           /\ route.routed_through = route.result
           /\ \A i \in DOMAIN list :
                 /\ list[i] \in HealthyEligibleOf(route, list)
                 /\ \A j \in 1..(i - 1) : list[j] \notin HealthyEligibleOf(route, list)
                 => route.result \in {list[j] : j \in 1..i}

----------------------------------------------------------------------------
(* CustomEndpointsManager *)

\* The sampling parameters of an endpoint, each Absent or Some(value).
Parameters(temperature, maxTokens, topP, frequencyPenalty, presencePenalty) ==
    [temperature |-> temperature, maxTokens |-> maxTokens, topP |-> topP,
     frequencyPenalty |-> frequencyPenalty, presencePenalty |-> presencePenalty]

\* A request as the rewrite reads it: fallbacks and messages are Absent or
\* Some(list), each sampling knob Absent or Some(value); stream stands for
\* the fields the rewrite does not name.
EndpointRequest(model, routeField, fallbacks, messages, temperature, max_tokens, top_p, frequency_penalty, presence_penalty, stream) ==
    [model |-> model, route |-> routeField, fallbacks |-> fallbacks,
     stream |-> stream,
     messages |-> messages, temperature |-> temperature,
     max_tokens |-> max_tokens, top_p |-> top_p,
     frequency_penalty |-> frequency_penalty,
     presence_penalty |-> presence_penalty]

Message(role, content) == [role |-> role, content |-> content]

\* The endpoint createEndpoint stores: { id, ...input, createdAt, updatedAt, owner }.
createEndpoint(id, input, owner, t) ==
    [kind |-> "endpoint", id |-> id, baseModel |-> input.baseModel,
     fallbacks |-> input.fallbacks, routingStrategy |-> input.routingStrategy,
     parameters |-> input.parameters, systemPrompt |-> input.systemPrompt,
     isPublic |-> input.isPublic, createdAt |-> t, updatedAt |-> t,
     owner |-> owner]

\* request.messages.some(m => m.role === 'system')
hasSystemMessage(messages) ==
    \E i \in DOMAIN messages : messages[i].role = "system"

\* A slip: the endpoint's value replaces the one of the request.
applyParameterEndpointFirst(parameter, requested) ==
    IF parameter # Absent THEN parameter ELSE requested

\* A knob of the request after the rewrite: the endpoint's value when the
\* endpoint has one and the request has none.
applyParameter(parameter, requested) ==
    IF parameter # Absent /\ requested = Absent THEN parameter ELSE requested

\* A slip: the system prompt is prepended whenever the endpoint has one.
applyEndpointToRequestAlwaysPrompt(store, endpointId, request) ==
    IF endpointId \notin DOMAIN store THEN Absent
    ELSE LET endpoint == store[endpointId]
             messages == IF request.messages = Absent THEN <<>>
                         ELSE request.messages[1]
         IN  Some([request EXCEPT
                 !.model = endpoint.baseModel,
                 !.route = Some(endpoint.routingStrategy),
                 !.fallbacks =
                     IF request.fallbacks = Absent /\ Len(endpoint.fallbacks) > 0
                     THEN Some(endpoint.fallbacks) ELSE request.fallbacks,
                 !.messages =
                     IF endpoint.systemPrompt # Absent
                     THEN Some(<<Message("system", endpoint.systemPrompt[1])>>
                                   \o messages)
                     ELSE request.messages,
                 !.temperature =
                     applyParameter(endpoint.parameters.temperature, request.temperature),
                 !.max_tokens =
                     applyParameter(endpoint.parameters.maxTokens, request.max_tokens),
                 !.top_p = applyParameter(endpoint.parameters.topP, request.top_p),
                 !.frequency_penalty =
                     applyParameter(endpoint.parameters.frequencyPenalty,
                                    request.frequency_penalty),
                 !.presence_penalty =
                     applyParameter(endpoint.parameters.presencePenalty,
                                    request.presence_penalty)])

\* applyEndpointToRequest(endpointId, request): Absent for null, else the
\* rewritten request.
applyEndpointToRequest(store, endpointId, request) ==
    IF endpointId \notin DOMAIN store THEN Absent
    ELSE LET endpoint == store[endpointId]
             messages == IF request.messages = Absent THEN <<>>
                         ELSE request.messages[1]
         IN  Some([request EXCEPT
                 !.model = endpoint.baseModel,
                 !.route = Some(endpoint.routingStrategy),
                 !.fallbacks =
                     IF request.fallbacks = Absent /\ Len(endpoint.fallbacks) > 0
                     THEN Some(endpoint.fallbacks) ELSE request.fallbacks,
                 !.messages =
                     IF /\ endpoint.systemPrompt # Absent
                        /\ Truthy(endpoint.systemPrompt[1])
                        /\ (request.messages = Absent \/ ~hasSystemMessage(messages))
                     THEN Some(<<Message("system", endpoint.systemPrompt[1])>>
                                   \o messages)
                     ELSE request.messages,
                 !.temperature =
                     applyParameter(endpoint.parameters.temperature, request.temperature),
                 !.max_tokens =
                     applyParameter(endpoint.parameters.maxTokens, request.max_tokens),
                 !.top_p = applyParameter(endpoint.parameters.topP, request.top_p),
                 !.frequency_penalty =
                     applyParameter(endpoint.parameters.frequencyPenalty,
                                    request.frequency_penalty),
                 !.presence_penalty =
                     applyParameter(endpoint.parameters.presencePenalty,
                                    request.presence_penalty)])

\* createEndpoint(input, owner): the ids are fresh, here 1, 2, ... in the
\* order of creation.
CreateEndpoint(input, owner) ==
    LET id == created.endpoints + 1
    IN  /\ endpoints' = [e \in DOMAIN endpoints \cup {id} |->
                            IF e = id THEN createEndpoint(id, input, owner, now)
                            ELSE endpoints[e]]
        /\ created' = [created EXCEPT !.endpoints = id]
        /\ UNCHANGED <<now, cache, defaultOptions, cacheCalls, lastCall, lastSet,
                       batchVars, chats, up, route, rewrite>>
        /\ UNCHANGED <<hookVars, usageRecords, reply>>

\* applyEndpointToRequest(endpointId, request).  rewrite keeps the call:
\* its request, its result, and whether the request is the result of the
\* call before it for the same endpoint, with the request that call had.
ApplyEndpointToRequest(endpointId, request) ==
    LET again == /\ rewrite.op = "applyEndpointToRequest"
                 /\ rewrite.endpointId = endpointId
                 /\ rewrite.result = Some(request)
    IN  /\ rewrite' = [op |-> "applyEndpointToRequest", endpointId |-> endpointId,
                       request |-> request,
                       result |-> applyEndpointToRequest(endpoints, endpointId, request),
                       again |-> again,
                       first |-> IF again THEN Some(rewrite.request) ELSE Absent]
        /\ UNCHANGED <<now, cache, defaultOptions, cacheCalls, lastCall, lastSet,
                       batchVars, chats, up, route, endpoints>>
        /\ UNCHANGED <<created, hookVars, usageRecords, reply>>

\* The sampling parameters an endpoint is created with.
EndpointParameters ==
    {Parameters(Absent, Absent, Absent, Absent, Absent),
     Parameters(Some(1), Absent, Absent, Absent, Absent),
     Parameters(Some(1), Some(1), Some(1), Some(1), Some(1))}

EndpointInputs ==
    {[baseModel |-> "openai/gpt-4o", fallbacks |-> fallbacks,
      routingStrategy |-> "fallback", parameters |-> parameters,
      systemPrompt |-> systemPrompt, isPublic |-> FALSE] :
        fallbacks \in {<<>>, <<"anthropic/claude-3-haiku">>},
        parameters \in EndpointParameters,
        systemPrompt \in {Absent, Some(""), Some("be brief")}}

\* The requests sent to an endpoint: with and without fallbacks, messages,
\* a system message and sampling knobs.
RewriteRequests ==
    {EndpointRequest("anthropic/claude-3-sonnet", Absent, fallbacks, messages,
                     knobs.temperature, knobs.maxTokens, knobs.topP,
                     knobs.frequencyPenalty, knobs.presencePenalty,
                     IF knobs.temperature = Absent /\ knobs.maxTokens # Absent
                     THEN Some(TRUE) ELSE Absent) :
        fallbacks \in {Absent, Some(<<>>), Some(<<"openai/gpt-3.5-turbo">>)},
        messages \in {Absent, Some(<<Message("user", "hi")>>),
                      Some(<<Message("user", "hi"), Message("system", "be kind")>>)},
        knobs \in {Parameters(Absent, Absent, Absent, Absent, Absent),
                   Parameters(Absent, Some(0), Some(0), Some(0), Some(0)),
                   Parameters(Some(0), Some(0), Some(0), Some(0), Some(0))}}

\* A caller may hand the result of the last rewrite to the rewrite again.
RewriteNext ==
    \/ Cardinality(DOMAIN endpoints) < MaxEndpoints
          /\ \E input \in EndpointInputs : CreateEndpoint(input, "alice")
    \/ \E endpointId \in 1..(MaxEndpoints + 1), request \in RewriteRequests :
          ApplyEndpointToRequest(endpointId, request)
    \/ /\ rewrite.op = "applyEndpointToRequest" /\ rewrite.result # Absent
       /\ ApplyEndpointToRequest(rewrite.endpointId, rewrite.result[1])

RewriteSpec == Init /\ [][RewriteNext]_vars

\* C20: for every request r and every existing endpoint e the rewrite
\* applied to its own result gives that result again:
\* applyEndpointToRequest(e, applyEndpointToRequest(e, r)) =
\* applyEndpointToRequest(e, r), whatever fallbacks, system message and
\* sampling knobs the request and the endpoint have.
C20_RewriteIdempotent ==
    rewrite.op = "applyEndpointToRequest" /\ rewrite.again =>
        rewrite.result = Some(rewrite.request)

C20_Witness ==
    /\ rewrite.op = "applyEndpointToRequest" /\ rewrite.again
    /\ rewrite.first[1].fallbacks = Absent /\ rewrite.request.fallbacks # Absent
    /\ rewrite.first[1].messages # Absent
    /\ Len(rewrite.request.messages[1]) = Len(rewrite.first[1].messages[1]) + 1
    /\ rewrite.first[1].temperature = Absent /\ rewrite.request.temperature # Absent
    /\ rewrite.first[1].max_tokens # Absent

\* The list of an optional list: empty when there is none.
ListOf(optional) == IF optional = Absent THEN <<>> ELSE optional[1]

\* A knob after the rewrite: the caller's value when the caller supplied
\* one, the endpoint's value otherwise.
KeepsOrTakes(requested, parameter, rewritten) ==
    IF requested # Absent THEN rewritten = requested ELSE rewritten = parameter

\* The endpoint has a system prompt: one that is not empty.
HasSystemPrompt(endpoint) ==
    endpoint.systemPrompt # Absent /\ endpoint.systemPrompt[1] # ""

\* C22: in the rewritten request, model and route always come from the
\* endpoint; fallbacks and each sampling knob keep the caller's value when
\* the caller supplied one and take the endpoint's value otherwise; the
\* endpoint's system prompt is prepended as first message exactly when the
\* endpoint has one and the caller's messages contain no system message;
\* no other field is changed.
C22_RewrittenRequest ==
    rewrite.op = "applyEndpointToRequest" /\ rewrite.result # Absent =>
        LET endpoint == endpoints[rewrite.endpointId]
            request == rewrite.request
            modified == rewrite.result[1]
            messages == ListOf(request.messages)
        IN  /\ modified.model = endpoint.baseModel
            /\ modified.route = Some(endpoint.routingStrategy)
            /\ IF request.fallbacks # Absent
               THEN modified.fallbacks = request.fallbacks
               ELSE ListOf(modified.fallbacks) = endpoint.fallbacks
            /\ KeepsOrTakes(request.temperature, endpoint.parameters.temperature,
                            modified.temperature)
            /\ KeepsOrTakes(request.max_tokens, endpoint.parameters.maxTokens,
                            modified.max_tokens)
            /\ KeepsOrTakes(request.top_p, endpoint.parameters.topP, modified.top_p)
            /\ KeepsOrTakes(request.frequency_penalty,
                            endpoint.parameters.frequencyPenalty,
                            modified.frequency_penalty)
            /\ KeepsOrTakes(request.presence_penalty,
                            endpoint.parameters.presencePenalty,
                            modified.presence_penalty)
            /\ IF HasSystemPrompt(endpoint) /\ ~hasSystemMessage(messages)
               THEN modified.messages =
                        Some(<<Message("system", endpoint.systemPrompt[1])>>
                                 \o messages)
               ELSE modified.messages = request.messages
            /\ modified.stream = request.stream

C22_Witness ==
    /\ rewrite.op = "applyEndpointToRequest" /\ rewrite.result # Absent
    /\ rewrite.request.temperature = Absent
    /\ rewrite.request.max_tokens = Some(0)
    /\ rewrite.request.fallbacks = Absent
    /\ rewrite.request.stream = Some(TRUE)
    /\ rewrite.request.messages = Some(<<Message("user", "hi")>>)
    /\ rewrite.result[1].temperature = Some(1)
    /\ rewrite.result[1].max_tokens = Some(0)
    /\ rewrite.result[1].fallbacks = Some(<<"anthropic/claude-3-haiku">>)
    /\ rewrite.result[1].messages =
           Some(<<Message("system", "be brief"), Message("user", "hi")>>)
    /\ rewrite.result[1].model = "openai/gpt-4o"

----------------------------------------------------------------------------
(* CustomEndpointsManager: access by owner, and the routes over it *)

\* { ...endpoint, ...input }: the fields of input replace those of target.
Spread(target, input) ==
    [f \in DOMAIN target |-> IF f \in DOMAIN input THEN input[f] ELSE target[f]]

\* A slip: the caller is not compared with the owner.
updateEndpointAnyCaller(store, id, input, owner, t) ==
    IF id \notin DOMAIN store
    THEN [store |-> store, result |-> Absent]
    ELSE LET updatedEndpoint ==
                 [Spread(store[id], input) EXCEPT !.updatedAt = t]
         IN  [store |-> [store EXCEPT ![id] = updatedEndpoint],
              result |-> Some(updatedEndpoint)]

\* updateEndpoint(id, input, owner): the store it leaves and what it
\* returns, Absent for null.
updateEndpoint(store, id, input, owner, t) ==
    IF id \notin DOMAIN store \/ store[id].owner # owner
    THEN [store |-> store, result |-> Absent]
    ELSE LET updatedEndpoint ==
                 [Spread(store[id], input) EXCEPT !.updatedAt = t]
         IN  [store |-> [store EXCEPT ![id] = updatedEndpoint],
              result |-> Some(updatedEndpoint)]

\* deleteEndpoint(id, owner): the store it leaves and the boolean returned.
deleteEndpoint(store, id, owner) ==
    IF id \notin DOMAIN store \/ store[id].owner # owner
    THEN [store |-> store, result |-> FALSE]
    ELSE [store |-> [e \in DOMAIN store \ {id} |-> store[e]], result |-> TRUE]

\* listEndpoints(owner), as the set of the endpoints returned.
listEndpoints(store, owner) ==
    {store[e] : e \in {e \in DOMAIN store :
                          store[e].owner = owner \/ store[e].isPublic}}

\* getEndpoint(id): Absent for undefined.
getEndpoint(store, id) == IF id \in DOMAIN store THEN Some(store[id]) ELSE Absent

\* GET /api/v1/endpoints?id=: the endpoint, or Absent for the 404.
getEndpointRoute(store, userId, endpointId) ==
    LET endpoint == getEndpoint(store, endpointId)
    IN  IF endpoint = Absent
           \/ (endpoint[1].owner # userId /\ ~endpoint[1].isPublic)
        THEN Absent
        ELSE endpoint

\* PUT /api/v1/endpoints: updateEndpoint(body.id, body, user.id).
UpdateEndpoint(id, input, owner) ==
    LET updated == updateEndpoint(endpoints, id, input, owner, now)
    IN  /\ endpoints' = updated.store
        /\ rewrite' = [op |-> "updateEndpoint", caller |-> owner, id |-> id,
                       result |-> updated.result]
        /\ UNCHANGED <<now, cache, defaultOptions, cacheCalls, lastCall, lastSet,
                       batchVars, chats, up, route>>
        /\ UNCHANGED <<created, hookVars, usageRecords, reply>>

\* DELETE /api/v1/endpoints?id=
DeleteEndpoint(id, owner) ==
    LET deleted == deleteEndpoint(endpoints, id, owner)
    IN  /\ endpoints' = deleted.store
        /\ rewrite' = [op |-> "deleteEndpoint", caller |-> owner, id |-> id,
                       result |-> deleted.result]
        /\ UNCHANGED <<now, cache, defaultOptions, cacheCalls, lastCall, lastSet,
                       batchVars, chats, up, route>>
        /\ UNCHANGED <<created, hookVars, usageRecords, reply>>

\* GET /api/v1/endpoints
ListEndpoints(owner) ==
    /\ rewrite' = [op |-> "listEndpoints", caller |-> owner,
                   result |-> listEndpoints(endpoints, owner)]
    /\ UNCHANGED <<now, cache, defaultOptions, cacheCalls, lastCall, lastSet,
                   batchVars, chats, up, route, endpoints>>
    /\ UNCHANGED <<created, hookVars, usageRecords, reply>>

\* GET /api/v1/endpoints?id=
GetEndpoint(userId, endpointId) ==
    /\ rewrite' = [op |-> "getEndpoint", caller |-> userId, id |-> endpointId,
                   result |-> getEndpointRoute(endpoints, userId, endpointId)]
    /\ UNCHANGED <<now, cache, defaultOptions, cacheCalls, lastCall, lastSet,
                   batchVars, chats, up, route, endpoints>>
    /\ UNCHANGED <<created, hookVars, usageRecords, reply>>

\* POST /api/v1/chat?endpoint= by userId, up to the rewrite of the body:
\* customEndpoints.applyEndpointToRequest(endpointId, body), and the 400
\* when it returns null.
ChatEndpoint(userId, endpointId, body) ==
    /\ rewrite' = [op |-> "chat", caller |-> userId, id |-> endpointId,
                   request |-> body,
                   result |-> applyEndpointToRequest(endpoints, endpointId, body)]
    /\ UNCHANGED <<now, cache, defaultOptions, cacheCalls, lastCall, lastSet,
                   batchVars, chats, up, route, endpoints>>
    /\ UNCHANGED <<created, hookVars, usageRecords, reply>>

\* The endpoints the two users create: private or public, with a preset.
AccessInputs ==
    {[baseModel |-> "openai/gpt-4o", fallbacks |-> <<"anthropic/claude-3-haiku">>,
      routingStrategy |-> "fallback",
      parameters |-> Parameters(Some(1), Absent, Absent, Absent, Absent),
      systemPrompt |-> Some("be brief"), isPublic |-> isPublic] :
        isPublic \in BOOLEAN}

\* The bodies of PUT: any fields of the endpoint, the owner among them.
AccessUpdates ==
    {[isPublic |-> TRUE], [isPublic |-> FALSE], [owner |-> "bob"],
     [baseModel |-> "anthropic/claude-3-sonnet"]}

AccessRequest ==
    EndpointRequest("anthropic/claude-3-sonnet", Absent, Absent,
                    Some(<<Message("user", "hi")>>), Absent, Absent, Absent,
                    Absent, Absent, Absent)

AccessNext ==
    \/ created.endpoints < MaxEndpoints
          /\ \E input \in AccessInputs, owner \in Users : CreateEndpoint(input, owner)
    \/ \E id \in 1..(MaxEndpoints + 1), input \in AccessUpdates, owner \in Users :
          UpdateEndpoint(id, input, owner)
    \/ \E id \in 1..(MaxEndpoints + 1), owner \in Users : DeleteEndpoint(id, owner)
    \/ \E owner \in Users : ListEndpoints(owner)
    \/ \E id \in 1..(MaxEndpoints + 1), userId \in Users : GetEndpoint(userId, id)
    \/ \E id \in 1..(MaxEndpoints + 1), userId \in Users :
          ChatEndpoint(userId, id, AccessRequest)

AccessSpec == Init /\ [][AccessNext]_vars

\* The endpoint is in the store and the caller is its owner or it is public.
Accessible(store, id, caller) ==
    id \in DOMAIN store /\ (store[id].owner = caller \/ store[id].isPublic)

\* C21: the endpoint rewrite yields no rewritten request whenever the
\* endpoint id is missing or the endpoint is not accessible to the caller
\* (the caller is not its owner and it is not public): no caller has a
\* request rewritten by another owner's private endpoint.
C21_RewriteOnlyIfAccessible ==
    rewrite.op = "chat" /\ ~Accessible(endpoints, rewrite.id, rewrite.caller) =>
        rewrite.result = Absent

\* The endpoint id differs, or is gone, after the step.
Touched(id) == id \notin DOMAIN endpoints' \/ endpoints'[id] # endpoints[id]

\* C23: an endpoint is changed or deleted only by calls of its owner:
\* update and delete by anyone else fail and leave the store unchanged; and
\* a caller's reads (list, get by id) return an endpoint if and only if the
\* caller is its owner or the endpoint is public.
C23_OwnerWritesAccessibleReads ==
    [][/\ \A id \in DOMAIN endpoints :
              Touched(id) =>
                  \/ /\ rewrite'.op = "updateEndpoint"
                     /\ \E input \in AccessUpdates :
                            UpdateEndpoint(id, input, endpoints[id].owner)
                  \/ /\ rewrite'.op = "deleteEndpoint"
                     /\ DeleteEndpoint(id, endpoints[id].owner)
       /\ \A id \in 1..(MaxEndpoints + 1), owner \in Users :
              id \notin DOMAIN endpoints \/ endpoints[id].owner # owner =>
                  /\ \A input \in AccessUpdates :
                         rewrite'.op = "updateEndpoint"
                             /\ UpdateEndpoint(id, input, owner) =>
                                 endpoints' = endpoints /\ rewrite'.result = Absent
                  /\ rewrite'.op = "deleteEndpoint" /\ DeleteEndpoint(id, owner) =>
                         endpoints' = endpoints /\ rewrite'.result = FALSE
       /\ \A owner \in Users :
              rewrite'.op = "listEndpoints" /\ ListEndpoints(owner) =>
                  \A e \in DOMAIN endpoints :
                      endpoints[e] \in rewrite'.result <=>
                          Accessible(endpoints, e, owner)
       /\ \A id \in 1..(MaxEndpoints + 1), userId \in Users :
              rewrite'.op = "getEndpoint" /\ GetEndpoint(userId, id) =>
                  IF Accessible(endpoints, id, userId)
                  THEN rewrite'.result = Some(endpoints[id])
                  ELSE rewrite'.result = Absent]_vars

C23_Witness ==
    /\ rewrite.op = "updateEndpoint" /\ rewrite.result = Absent
    /\ rewrite.id \in DOMAIN endpoints
    /\ endpoints[rewrite.id].owner = "alice" /\ rewrite.caller = "bob"
    /\ endpoints[rewrite.id].isPublic

----------------------------------------------------------------------------
(* WebhooksService *)

\* The event types of the model, two of WebhookEventType.
EventTypes == {"request.completed", "error"}

\* The webhook createWebhook stores; options.retries is Absent or Some(n).
createWebhook(id, userId, hookEvents, retries, t) ==
    [kind |-> "webhook", id |-> id, userId |-> userId, createdAt |-> t,
     updatedAt |-> t, events |-> hookEvents, active |-> TRUE,
     retries |-> IF retries = Absent \/ retries[1] = 0 THEN 3 ELSE retries[1],
     lastStatus |-> Absent]

\* A slip: the caller is not compared with the owner.
updateWebhookAnyCaller(store, id, userId, updates, t) ==
    IF id \notin DOMAIN store
    THEN [store |-> store, result |-> Absent]
    ELSE LET updatedWebhook ==
                 [Spread(store[id], updates) EXCEPT !.updatedAt = t]
         IN  [store |-> [store EXCEPT ![id] = updatedWebhook],
              result |-> Some(updatedWebhook)]

\* updateWebhook(id, userId, updates): the store it leaves and what it
\* returns, Absent for null.
updateWebhook(store, id, userId, updates, t) ==
    IF id \notin DOMAIN store \/ store[id].userId # userId
    THEN [store |-> store, result |-> Absent]
    ELSE LET updatedWebhook ==
                 [Spread(store[id], updates) EXCEPT !.updatedAt = t]
         IN  [store |-> [store EXCEPT ![id] = updatedWebhook],
              result |-> Some(updatedWebhook)]

\* deleteWebhook(id, userId): the store it leaves and the boolean returned.
deleteWebhook(store, id, userId) ==
    IF id \notin DOMAIN store \/ store[id].userId # userId
    THEN [store |-> store, result |-> FALSE]
    ELSE [store |-> [w \in DOMAIN store \ {id} |-> store[w]], result |-> TRUE]

\* listWebhooks(query), as the set of the webhooks returned; every field of
\* the query is Absent or Some(value), and an empty userId filters nothing.
listWebhooks(store, query) ==
    {store[w] : w \in {w \in DOMAIN store :
        /\ query.userId # Absent /\ Truthy(query.userId[1]) =>
               store[w].userId = query.userId[1]
        /\ query.eventType # Absent /\ Truthy(query.eventType[1]) =>
               query.eventType[1] \in store[w].events
        /\ query.active # Absent => store[w].active = query.active[1]}}

\* A slip: webhooks that are switched off receive the event too.
eligibleWebhooksInactiveToo(store, userId, type) ==
    {w \in DOMAIN store : store[w].userId = userId /\ type \in store[w].events}

\* The webhooks triggerEvent delivers to, by id.
eligibleWebhooks(store, userId, type) ==
    {w \in DOMAIN store :
        store[w].active /\ store[w].userId = userId /\ type \in store[w].events}

\* A slip: the newest delivery record is put first.
deliverEventNewestFirst(S, webhook, event, attemptNumber, success, t) ==
    LET delivery ==
            [id |-> Len(S.deliveries) + 1, webhookId |-> webhook.id,
             eventId |-> event.id, timestamp |-> t, success |-> success,
             attempt |-> attemptNumber,
             nextRetry |-> IF ~success /\ attemptNumber < webhook.retries
                           THEN Some(t + 2 ^ attemptNumber) ELSE Absent]
    IN  [S EXCEPT
            !.webhooks = [w \in DOMAIN S.webhooks \cup {webhook.id} |->
                             IF w = webhook.id
                             THEN [webhook EXCEPT !.lastStatus = Some(success)]
                             ELSE S.webhooks[w]],
            !.deliveries = <<delivery>> \o S.deliveries]

\* deliverEvent(webhook, event, attemptNumber) with the outcome success of
\* the delivery: the record is pushed, with nextRetry when the delivery
\* failed and attemptNumber < webhook.retries, and the webhook is stored
\* again with its last status.  Delivery ids are fresh, here the position
\* of the record.  S holds webhooks, events and deliveries.
deliverEvent(S, webhook, event, attemptNumber, success, t) ==
    LET delivery ==
            [id |-> Len(S.deliveries) + 1, webhookId |-> webhook.id,
             eventId |-> event.id, timestamp |-> t, success |-> success,
             attempt |-> attemptNumber,
             nextRetry |-> IF ~success /\ attemptNumber < webhook.retries
                           THEN Some(t + 2 ^ attemptNumber) ELSE Absent]
    IN  [S EXCEPT
            !.webhooks = [w \in DOMAIN S.webhooks \cup {webhook.id} |->
                             IF w = webhook.id
                             THEN [webhook EXCEPT !.lastStatus = Some(success)]
                             ELSE S.webhooks[w]],
            !.deliveries = Append(S.deliveries, delivery)]

\* for (const webhook of eligibleWebhooks) this.deliverEvent(webhook, event):
\* the Map lists the webhooks in the order of their creation.
RECURSIVE deliverAll(_, _, _, _, _)
deliverAll(S, eligible, event, outcome, t) ==
    IF eligible = {} THEN S
    ELSE LET w == CHOOSE w \in eligible : \A v \in eligible : w <= v
         IN  deliverAll(deliverEvent(S, S.webhooks[w], event, 1, outcome[w], t),
                        eligible \ {w}, event, outcome, t)

\* triggerEvent(userId, type, data): the event is pushed and delivered to
\* every eligible webhook before the call returns (deliverEvent has no
\* await).  Event ids are fresh, here the position of the event.
triggerEvent(S, userId, type, outcome, t) ==
    LET event == [id |-> Len(S.events) + 1, timestamp |-> t, userId |-> userId,
                  type |-> type]
    IN  deliverAll([S EXCEPT !.events = Append(S.events, event)],
                   eligibleWebhooks(S.webhooks, userId, type), event, outcome, t)

\* A slip: the caller is not compared with the owner of the webhook.
retryDeliveryAnyCaller(S, deliveryId, userId, success, t) ==
    IF deliveryId \notin DOMAIN S.deliveries
    THEN [state |-> S, result |-> FALSE]
    ELSE LET delivery == S.deliveries[deliveryId]
         IN  IF delivery.webhookId \notin DOMAIN S.webhooks
             THEN [state |-> S, result |-> FALSE]
             ELSE IF delivery.eventId \notin DOMAIN S.events
             THEN [state |-> S, result |-> FALSE]
             ELSE [state |-> deliverEvent(S, S.webhooks[delivery.webhookId],
                                          S.events[delivery.eventId],
                                          delivery.attempt + 1, success, t),
                   result |-> TRUE]

\* retryDelivery(deliveryId, userId) with the outcome of the new delivery.
retryDelivery(S, deliveryId, userId, success, t) ==
    IF deliveryId \notin DOMAIN S.deliveries
    THEN [state |-> S, result |-> FALSE]
    ELSE LET delivery == S.deliveries[deliveryId]
         IN  IF \/ delivery.webhookId \notin DOMAIN S.webhooks
                \/ S.webhooks[delivery.webhookId].userId # userId
             THEN [state |-> S, result |-> FALSE]
             ELSE IF delivery.eventId \notin DOMAIN S.events
             THEN [state |-> S, result |-> FALSE]
             ELSE [state |-> deliverEvent(S, S.webhooks[delivery.webhookId],
                                          S.events[delivery.eventId],
                                          delivery.attempt + 1, success, t),
                   result |-> TRUE]

\* The state of the service as the operators read it.
Hooks == [webhooks |-> webhooks, events |-> events, deliveries |-> deliveries]

\* What every action of the service leaves alone.
HookFrame ==
    UNCHANGED <<now, cache, defaultOptions, cacheCalls, lastCall, lastSet,
                batchVars, chats, routeVars, usageRecords, reply>>

\* POST /api/v1/webhooks: createWebhook with a fresh id, here 1, 2, ...
CreateWebhook(userId, hookEvents, retries) ==
    LET id == created.webhooks + 1
        webhook == createWebhook(id, userId, hookEvents, retries, now)
    IN  /\ webhooks' = [w \in DOMAIN webhooks \cup {id} |->
                           IF w = id THEN webhook ELSE webhooks[w]]
        /\ created' = [created EXCEPT !.webhooks = id]
        /\ hookCall' = [op |-> "createWebhook", caller |-> userId, id |-> id]
        /\ UNCHANGED <<events, deliveries>>
        /\ HookFrame

\* PUT /api/v1/webhooks: updateWebhook(body.id, user.id, body).
UpdateWebhook(id, userId, updates) ==
    LET updated == updateWebhook(webhooks, id, userId, updates, now)
    IN  /\ webhooks' = updated.store
        /\ hookCall' = [op |-> "updateWebhook", caller |-> userId, id |-> id,
                        result |-> updated.result]
        /\ UNCHANGED <<created, events, deliveries>>
        /\ HookFrame

\* DELETE /api/v1/webhooks?id=
DeleteWebhook(id, userId) ==
    LET deleted == deleteWebhook(webhooks, id, userId)
    IN  /\ webhooks' = deleted.store
        /\ hookCall' = [op |-> "deleteWebhook", caller |-> userId, id |-> id,
                        result |-> deleted.result]
        /\ UNCHANGED <<created, events, deliveries>>
        /\ HookFrame

\* listWebhooks(query)
ListWebhooks(query) ==
    /\ hookCall' = [op |-> "listWebhooks", query |-> query,
                    result |-> listWebhooks(webhooks, query)]
    /\ UNCHANGED <<created, webhooks, events, deliveries>>
    /\ HookFrame

\* triggerEvent(userId, type, data); outcome says for each webhook whether
\* its delivery succeeds.
TriggerEvent(userId, type, outcome) ==
    LET S == triggerEvent(Hooks, userId, type, outcome, now)
    IN  /\ webhooks' = S.webhooks
        /\ events' = S.events
        /\ deliveries' = S.deliveries
        /\ hookCall' = [op |-> "triggerEvent", caller |-> userId, type |-> type,
                        result |-> Len(S.events)]
        /\ UNCHANGED created
        /\ HookFrame

\* retryDelivery(deliveryId, userId)
RetryDelivery(deliveryId, userId, success) ==
    LET retried == retryDelivery(Hooks, deliveryId, userId, success, now)
    IN  /\ webhooks' = retried.state.webhooks
        /\ events' = retried.state.events
        /\ deliveries' = retried.state.deliveries
        /\ hookCall' = [op |-> "retryDelivery", caller |-> userId,
                        id |-> deliveryId, result |-> retried.result]
        /\ UNCHANGED created
        /\ HookFrame

\* The webhooks the users create and the changes they make.
HookEvents == {{"error"}, EventTypes}

HookUpdates == {[active |-> FALSE]}

\* Every delivery of a call succeeds, or every delivery fails.
Outcomes == {[w \in DOMAIN webhooks |-> success] : success \in BOOLEAN}

\* Webhooks of two users, some switched off, and the events of one of them.
TriggerNext ==
    \/ created.webhooks < MaxWebhooks
          /\ \E userId \in Users, hookEvents \in HookEvents :
                 CreateWebhook(userId, hookEvents, Absent)
    \/ \E id \in DOMAIN webhooks, updates \in HookUpdates :
          UpdateWebhook(id, webhooks[id].userId, updates)
    \/ Len(events) < MaxEvents
          /\ \E type \in EventTypes, outcome \in Outcomes :
                 TriggerEvent("alice", type, outcome)

TriggerSpec == Init /\ [][TriggerNext]_vars

\* One user's webhooks, deleted at some time, their deliveries, and the
\* retries two users ask for.
RetryNext ==
    \/ created.webhooks < MaxRetryWebhooks
          /\ CreateWebhook("alice", {"error"}, Absent)
    \/ \E id \in DOMAIN webhooks : DeleteWebhook(id, "alice")
    \/ Len(events) < MaxRetryEvents
          /\ \E outcome \in Outcomes : TriggerEvent("alice", "error", outcome)
    \/ Len(deliveries) < MaxDeliveries
          /\ \E deliveryId \in 1..(Len(deliveries) + 1), userId \in Users :
                 \E success \in BOOLEAN : RetryDelivery(deliveryId, userId, success)

RetrySpec == Init /\ [][RetryNext]_vars

\* The webhook id is active, belongs to userId and subscribes to type.
Matches(id, userId, type) ==
    /\ webhooks[id].active
    /\ webhooks[id].userId = userId
    /\ type \in webhooks[id].events

\* The delivery records the step has added.
Added == SubSeq(deliveries', Len(deliveries) + 1, Len(deliveries'))

\* C24: triggerEvent(owner, type, data) appends the event and records at
\* least one delivery attempt for every webhook that at trigger time is
\* active, belongs to owner and subscribes to type, and none for any other
\* webhook.
C24_DeliversToMatching ==
    [][hookCall'.op = "triggerEvent" /\ Len(events') = Len(events) + 1 =>
          LET event == events'[Len(events')]
          IN  /\ events' = Append(events, event)
              /\ event.userId = hookCall'.caller /\ event.type = hookCall'.type
              /\ SubSeq(deliveries', 1, Len(deliveries)) = deliveries
              /\ \A w \in DOMAIN webhooks :
                     Matches(w, event.userId, event.type) <=>
                         \E i \in DOMAIN Added :
                             /\ Added[i].webhookId = w
                             /\ Added[i].eventId = event.id
              /\ \A i \in DOMAIN Added :
                     /\ Added[i].webhookId \in DOMAIN webhooks
                     /\ Added[i].eventId = event.id]_vars

C24_Witness ==
    /\ hookCall.op = "triggerEvent"
    /\ \E w, v \in DOMAIN webhooks :
          /\ webhooks[w].userId = hookCall.caller /\ webhooks[w].active
          /\ hookCall.type \in webhooks[w].events
          /\ \E i \in DOMAIN deliveries :
                 /\ deliveries[i].webhookId = w
                 /\ deliveries[i].eventId = hookCall.result
          /\ webhooks[v].userId = hookCall.caller /\ ~webhooks[v].active
          /\ hookCall.type \in webhooks[v].events
          /\ \A i \in DOMAIN deliveries : deliveries[i].webhookId # v

\* C26: for every webhook, the first delivery attempts of the events that
\* match it are recorded in the order in which the events were triggered.
C26_FirstAttemptsInTriggerOrder ==
    \A i, j \in DOMAIN deliveries :
        /\ i < j
        /\ deliveries[i].webhookId = deliveries[j].webhookId
        /\ deliveries[i].attempt = 1 /\ deliveries[j].attempt = 1
        => \E m, n \in DOMAIN events :
               /\ m < n
               /\ events[m].id = deliveries[i].eventId
               /\ events[n].id = deliveries[j].eventId

C26_Witness ==
    \E i, j \in DOMAIN deliveries :
        /\ i < j
        /\ deliveries[i].webhookId = deliveries[j].webhookId
        /\ deliveries[i].attempt = 1 /\ deliveries[j].attempt = 1
        /\ deliveries[i].eventId # deliveries[j].eventId

\* The retry is one the service accepts: the delivery and its webhook
\* exist (its event always does) and the caller owns the webhook.
Retriable(deliveryId, userId) ==
    /\ deliveryId \in DOMAIN deliveries
    /\ deliveries[deliveryId].webhookId \in DOMAIN webhooks
    /\ webhooks[deliveries[deliveryId].webhookId].userId = userId
    /\ deliveries[deliveryId].eventId \in DOMAIN events

\* C27: retryDelivery(deliveryId, owner) by the owner of the delivery's
\* webhook appends exactly one new delivery record for the same webhook and
\* event with attempt = previous attempt + 1 and returns true; if the
\* delivery, the webhook or the event does not exist, or the caller does
\* not own the webhook, it returns false and adds no delivery.
C27_RetryDelivery ==
    [][hookCall'.op = "retryDelivery" =>
          IF Retriable(hookCall'.id, hookCall'.caller)
          THEN /\ hookCall'.result = TRUE
               /\ Len(deliveries') = Len(deliveries) + 1
               /\ SubSeq(deliveries', 1, Len(deliveries)) = deliveries
               /\ Added[1].webhookId = deliveries[hookCall'.id].webhookId
               /\ Added[1].eventId = deliveries[hookCall'.id].eventId
               /\ Added[1].attempt = deliveries[hookCall'.id].attempt + 1
          ELSE hookCall'.result = FALSE /\ deliveries' = deliveries]_vars

C27_Witness ==
    /\ hookCall.op = "retryDelivery" /\ hookCall.result = TRUE
    /\ deliveries[Len(deliveries)].attempt = 3
    /\ deliveries[hookCall.id].attempt = 2
    /\ ~deliveries[hookCall.id].success

\* The retries a webhook is created with: options.retries || 3.
HookRetries == {Absent, Some(1), Some(2)}

\* The delivery records a behaviour of the dispatcher can hold.
MaxRecords == MaxDeliveries + MaxRetryWebhooks * MaxRetryEvents

\* The dispatcher over time: webhooks with one to three attempts, events
\* whose deliveries succeed or fail, retries asked by the owner, and the
\* clock.
DispatchNext ==
    \/ created.webhooks < MaxRetryWebhooks
          /\ \E retries \in HookRetries : CreateWebhook("alice", {"error"}, retries)
    \/ Len(events) < MaxRetryEvents
          /\ \E outcome \in Outcomes : TriggerEvent("alice", "error", outcome)
    \/ Len(deliveries) < MaxDeliveries
          /\ \E deliveryId \in DOMAIN deliveries, success \in BOOLEAN :
                 RetryDelivery(deliveryId, "alice", success)
    \/ now < MaxTime /\ Tick

\* Time passes; nothing else is scheduled by the service.
DispatchSpec == Init /\ [][DispatchNext]_vars /\ WF_vars(now < MaxTime /\ Tick)

\* The delivery i failed and its webhook allows a further attempt.
RetryRemains(i) ==
    /\ i \in DOMAIN deliveries
    /\ ~deliveries[i].success
    /\ deliveries[i].webhookId \in DOMAIN webhooks
    /\ deliveries[i].attempt < webhooks[deliveries[i].webhookId].retries

\* A later record is the next attempt of the delivery i.
Retried(i) ==
    \E j \in DOMAIN deliveries :
        /\ j > i
        /\ deliveries[j].webhookId = deliveries[i].webhookId
        /\ deliveries[j].eventId = deliveries[i].eventId
        /\ deliveries[j].attempt = deliveries[i].attempt + 1

\* C25: after a failed delivery the dispatcher retries: a further attempt
\* for the same webhook and event, with the next attempt number, is
\* eventually made as long as the delivery failed and webhook.retries is
\* not exhausted; and nextRetry is set on a failed delivery record exactly
\* when a retry remains.
C25_RetriesUntilExhausted ==
    /\ [](\A i \in DOMAIN deliveries :
              deliveries[i].nextRetry # Absent <=> RetryRemains(i))
    /\ \A i \in 1..MaxRecords : RetryRemains(i) ~> Retried(i)

\* The bodies of PUT /api/v1/webhooks: the route hands the whole body to
\* updateWebhook, whatever fields it has.
IsolationUpdates == {[active |-> FALSE], [events |-> {"error"}], [userId |-> "bob"]}

\* GET /api/v1/webhooks: listWebhooks({ userId: user.id, ... }).
OwnerQuery(userId) == [userId |-> Some(userId), eventType |-> Absent, active |-> Absent]

\* The webhooks of two users and their calls on each other's webhooks.
IsolationNext ==
    \/ created.webhooks < MaxWebhooks
          /\ \E userId \in Users, hookEvents \in HookEvents :
                 CreateWebhook(userId, hookEvents, Absent)
    \/ \E id \in 1..(MaxWebhooks + 1), userId \in Users, updates \in IsolationUpdates :
          UpdateWebhook(id, userId, updates)
    \/ \E id \in 1..(MaxWebhooks + 1), userId \in Users : DeleteWebhook(id, userId)
    \/ \E userId \in Users : ListWebhooks(OwnerQuery(userId))

IsolationSpec == Init /\ [][IsolationNext]_vars

\* C28: webhooks are isolated per owner: updateWebhook and deleteWebhook by
\* a non-owner fail and leave the store unchanged; an update by the owner
\* never changes the webhook's id or owner; and listing with an owner
\* filter returns only that owner's webhooks.
C28_IsolatedPerOwner ==
    [][/\ hookCall'.op = "updateWebhook" =>
              IF /\ hookCall'.id \in DOMAIN webhooks
                 /\ webhooks[hookCall'.id].userId = hookCall'.caller
              THEN /\ hookCall'.id \in DOMAIN webhooks'
                   /\ webhooks'[hookCall'.id].id = webhooks[hookCall'.id].id
                   /\ webhooks'[hookCall'.id].userId = webhooks[hookCall'.id].userId
              ELSE webhooks' = webhooks /\ hookCall'.result = Absent
       /\ hookCall'.op = "deleteWebhook" =>
              \/ /\ hookCall'.id \in DOMAIN webhooks
                 /\ webhooks[hookCall'.id].userId = hookCall'.caller
              \/ webhooks' = webhooks /\ hookCall'.result = FALSE
       /\ hookCall'.op = "listWebhooks" /\ hookCall'.query.userId # Absent =>
              \A webhook \in hookCall'.result :
                  webhook.userId = hookCall'.query.userId[1]]_vars

----------------------------------------------------------------------------
(* BatchProcessor: creation and the callback *)

\* C29: immediately after createBatch returns, the batch stored under the
\* new id is pending with completedCount = failedCount = 0, so that its
\* owner can still cancel it.
C29_CreatedBatchIsPending ==
    [][\A id \in DOMAIN batchRequests' \ DOMAIN batchRequests :
           /\ batchRequests'[id].status = "pending"
           /\ batchRequests'[id].completedCount = 0
           /\ batchRequests'[id].failedCount = 0]_vars

\* Batches with and without a callback URL, the webhooks of their owner,
\* and the events other parts of the service trigger.
CallbackNext ==
    \/ /\ NextId <= MaxBatches
       /\ Submitted + 1 <= MaxLiveRequests
       /\ \/ CreateBatch("alice", Children(1, "m1", FALSE), "normal")
          \/ CreateBatchWithCallback("alice", Children(1, "m1", FALSE), "normal",
                                     "https://example.com/done")
    \/ \E id \in DOMAIN batchRequests : CancelBatch(id, "alice")
    \/ SchedulerTick
    \/ \E id \in DOMAIN runs : ChildFulfils(id, 1, "m1")
    \/ \E id \in DOMAIN runs : Failures < MaxFailures /\ ChildRejects(id, 1)
    \/ \E id \in DOMAIN runs : ChunkSettled(id)
    \/ created.webhooks < MaxRetryWebhooks
          /\ \E hookEvents \in HookEvents : CreateWebhook("alice", hookEvents, Absent)
    \/ Len(events) < MaxRetryEvents
          /\ \E outcome \in Outcomes : TriggerEvent("alice", "error", outcome)

CallbackSpec ==
    /\ Init /\ [][CallbackNext]_vars
    /\ WF_vars(\E id \in 1..MaxBatches : ChildFulfils(id, 1, "m1"))
    /\ WF_vars(\E id \in 1..MaxBatches : ChunkSettled(id))
    /\ WF_vars(SchedulerTick)

\* The batch b is completed and was created with a callback URL.
CompletedWithCallback(b) ==
    /\ b \in DOMAIN batchRequests
    /\ batchRequests[b].status = "completed"
    /\ batchRequests[b].callbackUrl # Absent

\* The event i is a batch.completed event of userId, delivered to every
\* webhook of userId that subscribes to it.
BatchCompletedEvent(i, userId) ==
    /\ events[i].type = "batch.completed"
    /\ events[i].userId = userId
    /\ \A w \in DOMAIN webhooks :
           Matches(w, userId, "batch.completed") =>
               \E d \in DOMAIN deliveries :
                   /\ deliveries[d].webhookId = w
                   /\ deliveries[d].eventId = events[i].id

\* C30: whenever a batch with a callbackUrl reaches completed, a webhook
\* event batch.completed is emitted for the owner and delivered to the
\* owner's subscribed webhooks; no such event is emitted for a batch
\* without a callbackUrl or one that ends failed.
C30_BatchCompletedEvent ==
    /\ \A b \in 1..MaxBatches :
           CompletedWithCallback(b) ~>
               \E i \in DOMAIN events :
                   BatchCompletedEvent(i, batchRequests[b].userId)
    /\ [](Cardinality({i \in DOMAIN events : events[i].type = "batch.completed"})
             <= Cardinality({b \in 1..MaxBatches : CompletedWithCallback(b)}))

----------------------------------------------------------------------------
(* POST /api/v1/batch *)

\* A child of a batch body, or a chat body, as it arrives: model is Absent
\* or Some(id), role is the role of its message, temperature is Absent or
\* Some(number), extra is Absent or Some(value of a key the schema does not
\* know).
Body(model, role, content, temperature, stream, extra) ==
    [model |-> model, role |-> role, content |-> content,
     temperature |-> temperature, stream |-> stream, extra |-> extra]

Roles == {"system", "user", "assistant"}

\* ModelRequestSchema.parse(body): the parsed request, which is the body
\* without the keys the schema does not know, or the ZodError.
ModelRequestSchemaParse(body) ==
    IF body.model = Absent
    THEN [ok |-> FALSE, request |-> NoEntry, error |-> "model: Required"]
    ELSE IF body.role \notin Roles
    THEN [ok |-> FALSE, request |-> NoEntry, error |-> "role: Invalid enum value"]
    ELSE IF body.temperature # Absent /\ body.temperature[1] \notin 0..2
    THEN [ok |-> FALSE, request |-> NoEntry,
          error |-> "temperature: Number must be less than or equal to 2"]
    ELSE [ok |-> TRUE,
          request |-> Request(body.model[1], body.content, body.temperature,
                              body.stream),
          error |-> ""]

\* BatchRequestSchema.parse(body) passes: requests is an array and priority,
\* when present, is one of the three priorities.
BatchRequestSchemaPasses(body) ==
    body.priority = Absent \/ body.priority[1] \in Priorities

\* The valid children of requests, parsed, in their order.
RECURSIVE validRequestsOf(_)
validRequestsOf(requests) ==
    IF requests = <<>> THEN <<>>
    ELSE LET parsed == ModelRequestSchemaParse(Head(requests))
         IN  (IF parsed.ok THEN <<parsed.request>> ELSE <<>>)
                \o validRequestsOf(Tail(requests))

\* The invalid children of requests with their errors, in their order.
RECURSIVE invalidRequestsOf(_)
invalidRequestsOf(requests) ==
    IF requests = <<>> THEN <<>>
    ELSE LET parsed == ModelRequestSchemaParse(Head(requests))
         IN  (IF parsed.ok THEN <<>>
              ELSE <<[request |-> Head(requests), error |-> parsed.error]>>)
                \o invalidRequestsOf(Tail(requests))

BatchReply(status, error, batch, validCount, invalidRequests) ==
    [status |-> status, error |-> error, batch |-> batch,
     validRequests |-> validCount, invalidRequests |-> invalidRequests]

\* A slip: one invalid child is enough to refuse the batch.
postBatchAllOrNothing(S, id, userId, body, defaults, t) ==
    IF ~BatchRequestSchemaPasses(body)
    THEN [S |-> S, reply |-> BatchReply(400, "Invalid batch request", Absent, 0, Absent)]
    ELSE LET validRequests == validRequestsOf(body.requests)
             invalidRequests == invalidRequestsOf(body.requests)
             priority == IF body.priority = Absent THEN "normal" ELSE body.priority[1]
         IN  IF Len(invalidRequests) > 0 \/ Len(validRequests) = 0
             THEN [S |-> S,
                   reply |-> BatchReply(400, "No valid requests in batch", Absent, 0,
                                        Some(invalidRequests))]
             ELSE Bind(IF body.callbackUrl = Absent
                       THEN createBatch(S, id, userId, validRequests, priority,
                                        defaults, t)
                       ELSE createBatchWithCallback(S, id, userId, validRequests,
                                                    priority, body.callbackUrl[1],
                                                    defaults, t),
                       LAMBDA S1 :
                          [S |-> S1,
                           reply |-> BatchReply(201, "", Some(S1.br[id]),
                                                Len(validRequests),
                                                IF Len(invalidRequests) > 0
                                                THEN Some(invalidRequests)
                                                ELSE Absent)])

\* The handler of POST /api/v1/batch for the caller userId: the processor
\* it leaves and the answer it sends.
postBatch(S, id, userId, body, defaults, t) ==
    IF ~BatchRequestSchemaPasses(body)
    THEN [S |-> S, reply |-> BatchReply(400, "Invalid batch request", Absent, 0, Absent)]
    ELSE LET validRequests == validRequestsOf(body.requests)
             invalidRequests == invalidRequestsOf(body.requests)
             priority == IF body.priority = Absent THEN "normal" ELSE body.priority[1]
         IN  IF Len(validRequests) = 0
             THEN [S |-> S,
                   reply |-> BatchReply(400, "No valid requests in batch", Absent, 0,
                                        Some(invalidRequests))]
             ELSE Bind(IF body.callbackUrl = Absent
                       THEN createBatch(S, id, userId, validRequests, priority,
                                        defaults, t)
                       ELSE createBatchWithCallback(S, id, userId, validRequests,
                                                    priority, body.callbackUrl[1],
                                                    defaults, t),
                       LAMBDA S1 :
                          [S |-> S1,
                           reply |-> BatchReply(201, "", Some(S1.br[id]),
                                                Len(validRequests),
                                                IF Len(invalidRequests) > 0
                                                THEN Some(invalidRequests)
                                                ELSE Absent)])

PostBatch(userId, body) ==
    /\ \E R \in {postBatch(St, NextId, userId, body, defaultOptions, now)} :
           /\ Commit(R.S)
           /\ reply' = [op |-> "postBatch", userId |-> userId, body |-> body,
                         answer |-> R.reply]
    /\ UNCHANGED <<now, defaultOptions, lastCall, lastSet, chats>>
    /\ UNCHANGED routeVars
    /\ UNCHANGED <<created, hookVars, usageRecords>>

\* The children a batch body may hold: two valid ones, the second with a
\* key the schema does not know, and three invalid ones.
IntakeChildren ==
    {Body(Some("m1"), "user", 1, Absent, FALSE, Absent),
     Body(Some("m1"), "user", 2, Some(1), FALSE, Some("x")),
     Body(Absent, "user", 3, Absent, FALSE, Absent),
     Body(Some("m1"), "bogus", 4, Absent, FALSE, Absent),
     Body(Some("m1"), "user", 5, Some(5), FALSE, Absent)}

RECURSIVE ListsUpTo(_, _)
ListsUpTo(S, n) ==
    IF n = 0 THEN {<<>>}
    ELSE LET shorter == ListsUpTo(S, n - 1)
         IN  shorter \cup {Append(l, x) : l \in shorter, x \in S}

IntakeBodies ==
    {[requests |-> requests, priority |-> Absent, callbackUrl |-> Absent] :
        requests \in ListsUpTo(IntakeChildren, MaxIntakeChildren)}
       \cup {[requests |-> <<Body(Some("m1"), "user", 1, Absent, FALSE, Absent)>>,
              priority |-> priority,
              callbackUrl |-> Some("https://example.com/done")] :
                 priority \in {Some("high"), Some("urgent")}}

IntakeNext ==
    \/ \E body \in IntakeBodies :
          /\ Submitted + Len(body.requests) <= MaxIntakeChildren
          /\ PostBatch("alice", body)
    \/ SchedulerTick
    \/ \E id \in DOMAIN runs, j \in 1..MaxIntakeChildren : ChildFulfils(id, j, "m1")
    \/ \E id \in DOMAIN runs : ChunkSettled(id)

IntakeSpec == Init /\ [][IntakeNext]_vars

\* The step answers a batch body whose options are of their declared types.
Intake ==
    /\ reply'.op = "postBatch"
    /\ reply' # reply
    /\ BatchRequestSchemaPasses(reply'.body)

AllInvalid(body) ==
    \A i \in DOMAIN body.requests : ~ModelRequestSchemaParse(body.requests[i]).ok

\* The indices of the valid children of body, in increasing order.
ValidIndices(body) ==
    SelectSeq([i \in DOMAIN body.requests |-> i],
              LAMBDA i : ModelRequestSchemaParse(body.requests[i]).ok)

----------------------------------------------------------------------------
(* POST /api/v1/chat/completions *)

\* The body as applyEndpointToRequest reads it.
AsEndpointRequest(body) ==
    EndpointRequest(body.model, Absent, Absent,
                    Some(<<Message(body.role, body.content)>>), body.temperature,
                    Absent, Absent, Absent, Absent,
                    IF body.stream THEN Some(TRUE) ELSE Absent)

\* The rewritten request as the cache and the upstream read it.
AsRequest(modelRequest) ==
    Request(modelRequest.model, modelRequest.messages[1], modelRequest.temperature,
            modelRequest.stream = Some(TRUE))

\* The request the route goes on with: Absent when it answers 400.
chatModelRequest(store, endpointId, body) ==
    IF endpointId # Absent
    THEN LET applied == applyEndpointToRequest(store, endpointId[1],
                                               AsEndpointRequest(body))
         IN  IF applied = Absent THEN Absent ELSE Some(AsRequest(applied[1]))
    ELSE LET parsed == ModelRequestSchemaParse(body)
         IN  IF parsed.ok THEN Some(parsed.request) ELSE Absent

\* The handler up to its call of the upstream, for the caller userId, the
\* endpoint query parameter (Absent or Some(id)) and a body.  The status in
\* reply is Absent while the upstream is awaited.
ChatRoute(userId, endpointId, body) ==
    LET modelRequest == chatModelRequest(endpoints, endpointId, body)
        call == [op |-> "chat", userId |-> userId, endpointId |-> endpointId,
                 body |-> body]
    IN  IF modelRequest = Absent
        THEN /\ reply' = call @@ [status |-> Some(400)]
             /\ UNCHANGED <<now, cache, defaultOptions, cacheCalls, lastCall,
                            lastSet, batchVars, chats>>
             /\ UNCHANGED routeVars
             /\ UNCHANGED <<created, hookVars, usageRecords>>
        ELSE LET request == modelRequest[1]
                 got == getCachedResponse(cache, defaultOptions, request,
                                          NoOptions, now)
                 consulted == ~request.stream
                 hit == consulted /\ got.result # NoEntry
                 c == Cardinality(DOMAIN chats) + 1
             IN  /\ cache' = IF consulted THEN got.cache ELSE cache
                 /\ cacheCalls' = IF consulted /\ got.read
                                  THEN cacheCalls \cup {CacheCall("get", request, "chat")}
                                  ELSE cacheCalls
                 /\ chats' = [k \in DOMAIN chats \cup {c} |->
                                 IF k = c
                                 THEN [userId |-> userId, request |-> request,
                                       hit |-> hit,
                                       st |-> IF hit THEN "answered" ELSE "awaiting",
                                       response |-> IF hit
                                                    THEN Some(got.result.response)
                                                    ELSE Absent,
                                       answeredAt |-> IF hit THEN Some(now)
                                                      ELSE Absent]
                                 ELSE chats[k]]
                 /\ usageRecords' =
                        IF hit
                        THEN logUsage(usageRecords,
                                      cacheHitUsage(userId, request, got.result),
                                      now)
                        ELSE usageRecords
                 /\ reply' = call @@ [status |-> IF hit THEN Some(200) ELSE Absent]
                 /\ UNCHANGED <<now, defaultOptions, lastCall, lastSet, batchVars>>
                 /\ UNCHANGED routeVars
                 /\ UNCHANGED <<created, hookVars>>

\* Chat bodies: a valid one, and ones that fail the schema for their
\* temperature, for the role of their message or for lack of a model.
ChatBodies ==
    {Body(Some("m1"), "user", 1, Absent, FALSE, Absent),
     Body(Some("m1"), "user", 1, Some(5), FALSE, Absent),
     Body(Some("m1"), "bogus", 1, Absent, FALSE, Absent),
     Body(Absent, "user", 1, Absent, TRUE, Absent)}

PipelineInputs ==
    {[baseModel |-> "openai/gpt-4o", fallbacks |-> <<>>,
      routingStrategy |-> "fallback",
      parameters |-> Parameters(Absent, Absent, Absent, Absent, Absent),
      systemPrompt |-> systemPrompt, isPublic |-> TRUE] :
        systemPrompt \in {Absent, Some("be brief")}}

PipelineNext ==
    \/ created.endpoints < MaxEndpoints
          /\ \E input \in PipelineInputs : CreateEndpoint(input, "alice")
    \/ \E endpointId \in {Absent} \cup {Some(e) : e \in 1..MaxEndpoints},
          body \in ChatBodies :
          /\ Cardinality(DOMAIN chats) < MaxChats
          /\ ChatRoute("bob", endpointId, body)
    \/ \E c \in DOMAIN chats, m \in Models : ChatCompletes(c, m)
    \/ \E c \in DOMAIN chats : ChatFails(c)

PipelineSpec == Init /\ [][PipelineNext]_vars

\* C32: every request passes the pipeline steps in order Validate,
\* EndpointRewrite, Cache.Get, Router, dispatch: no request that fails
\* validation ever reaches cache lookup, routing or dispatch, whether or
\* not an endpoint id is supplied with it.  A request that the route takes
\* to the cache lookup or to the upstream is a new entry of chats, and the
\* body of the latest request is in reply.
C32_InvalidNeverDispatched ==
    [][(reply'.op = "chat" /\ ~ModelRequestSchemaParse(reply'.body).ok)
          => DOMAIN chats' = DOMAIN chats]_vars

\* Chat requests repeated over time, with no endpoint.
RepeatBodies ==
    {Body(Some("m1"), "user", 1, Absent, FALSE, Absent),
     Body(Some("m1"), "user", 1, Absent, TRUE, Absent),
     Body(Some("m1"), "user", 2, Some(1), FALSE, Some("x"))}

RepeatNext ==
    \/ \E body \in RepeatBodies :
          /\ Cardinality(DOMAIN chats) < MaxChats
          /\ ChatRoute("bob", Absent, body)
    \/ \E c \in DOMAIN chats, m \in Models : ChatCompletes(c, m)
    \/ \E c \in DOMAIN chats : ChatFails(c)
    \/ CleanupExpiredItems
    \/ now < MaxTime /\ Tick

RepeatSpec == Init /\ [][RepeatNext]_vars

\* The chats the upstream answered for the request.
Firsts(request) ==
    {d \in DOMAIN chats : /\ chats[d].request = request
                          /\ chats[d].st = "answered"
                          /\ ~chats[d].hit}

\* d is the latest of them, and the one answer of its instant.
IsLatest(d, request) ==
    \A e \in Firsts(request) :
        /\ chats[e].answeredAt[1] <= chats[d].answeredAt[1]
        /\ chats[e].answeredAt[1] = chats[d].answeredAt[1] =>
              chats[e].response = chats[d].response

\* C33: for two identical non-streaming chat requests made back to back,
\* where the first succeeds and the second arrives within the TTL, the
\* second is answered from the cache with the first's response without any
\* routing or upstream dispatch, and appends exactly one usage record with
\* cache hit = true and cost = 0.
C33_RepeatAnsweredFromCache ==
    [][\A c \in DOMAIN chats' \ DOMAIN chats, d \in DOMAIN chats :
          LET request == chats'[c].request
          IN  (/\ ~request.stream
               /\ d \in Firsts(request)
               /\ IsLatest(d, request)
               /\ now < chats[d].answeredAt[1] + DEFAULT_TTL)
              => /\ chats'[c].hit
                 /\ chats'[c].st = "answered"
                 /\ chats'[c].response = chats[d].response
                 /\ route' = route
                 /\ Len(usageRecords') = Len(usageRecords) + 1
                 /\ LET record == usageRecords'[Len(usageRecords')]
                    IN  /\ record.cachingInfo = Some(TRUE)
                        /\ record.cost = 0
                        /\ record.success
                        /\ record.userId = chats'[c].userId
                 /\ \A k \in DOMAIN usageRecords :
                       usageRecords'[k] = usageRecords[k]]_vars

\* The second of two identical requests was answered from the cache with
\* the answer the upstream gave to the first.
C33_Witness ==
    \E c, d \in DOMAIN chats :
        /\ d < c
        /\ chats[c].request = chats[d].request
        /\ ~chats[d].hit /\ chats[d].st = "answered"
        /\ chats[c].hit /\ chats[c].response = chats[d].response
        /\ Len(usageRecords) = 2
        /\ usageRecords[2].cachingInfo = Some(TRUE)

----------------------------------------------------------------------------
(* AnalyticsService: queries *)

\* A UsageQuery: every field is Absent or Some(value).
UsageQuery(userId, startDate, endDate, modelIds, endpointId, limit, page) ==
    [userId |-> userId, startDate |-> startDate, endDate |-> endDate,
     models |-> modelIds, endpointId |-> endpointId, limit |-> limit, page |-> page]

\* models.includes(x)
Includes(modelIds, x) == \E i \in DOMAIN modelIds : modelIds[i] = x

\* The filters of queryUsage, each applied when its field is truthy.
passesFilters(record, query) ==
    /\ (query.userId # Absent /\ Truthy(query.userId[1]))
          => record.userId = query.userId[1]
    /\ query.startDate # Absent => record.timestamp >= query.startDate[1]
    /\ query.endDate # Absent => record.timestamp <= query.endDate[1]
    /\ (query.models # Absent /\ Len(query.models[1]) > 0)
          => \/ Includes(query.models[1], record.model.requested)
             \/ Includes(query.models[1], record.model.actual)
    /\ (query.endpointId # Absent /\ Truthy(query.endpointId[1]))
          => record.endpointId = query.endpointId

\* results.sort((a, b) => b.timestamp - a.timestamp): newest first, records
\* of one instant in the order they had.
RECURSIVE sortNewestFirst(_)
sortNewestFirst(records) ==
    IF records = <<>> THEN <<>>
    ELSE LET n == Len(records)
             last == records[n]
             sorted == sortNewestFirst(SubSeq(records, 1, n - 1))
             before == SelectSeq(sorted, LAMBDA r : r.timestamp >= last.timestamp)
             after == SelectSeq(sorted, LAMBDA r : r.timestamp < last.timestamp)
         IN  before \o <<last>> \o after

\* results.slice(from, to)
Slice(results, from, to) == SubSeq(results, from + 1, Min(to, Len(results)))

\* queryUsage(query) on the records logged so far.
queryUsage(records, query) ==
    LET results ==
            sortNewestFirst(SelectSeq(records, LAMBDA r : passesFilters(r, query)))
    IN  IF query.limit # Absent /\ query.limit[1] # 0
        THEN LET page == IF query.page = Absent THEN 0 ELSE query.page[1]
                 offset == page * query.limit[1]
             IN  Slice(results, offset, offset + query.limit[1])
        ELSE results

\* A slip: every record that says whether it was a hit counts as one.
getMetricsHitsByPresence(records, query) ==
    LET results == queryUsage(records, query)
        requested == {results[k].model.requested : k \in DOMAIN results}
    IN  [totalRequests |-> Len(results),
         successfulRequests |-> CountIn(results, LAMBDA r : r.success),
         failedRequests |-> CountIn(results, LAMBDA r : ~r.success),
         totalCost |-> SumOver([k \in DOMAIN results |-> results[k].cost]),
         modelUsage |-> [m \in requested |->
                            CountIn(results, LAMBDA r : r.model.requested = m)],
         routingStats |->
             [fallbacks |-> CountIn(results,
                                    LAMBDA r : r.model.requested # r.model.actual),
              cachingHits |-> CountIn(results, LAMBDA r : r.cachingInfo # Absent)]]

\* getMetrics(query) on the records logged so far.
getMetrics(records, query) ==
    LET results == queryUsage(records, query)
        requested == {results[k].model.requested : k \in DOMAIN results}
    IN  [totalRequests |-> Len(results),
         successfulRequests |-> CountIn(results, LAMBDA r : r.success),
         failedRequests |-> CountIn(results, LAMBDA r : ~r.success),
         totalCost |-> SumOver([k \in DOMAIN results |-> results[k].cost]),
         modelUsage |-> [m \in requested |->
                            CountIn(results, LAMBDA r : r.model.requested = m)],
         routingStats |->
             [fallbacks |-> CountIn(results,
                                    LAMBDA r : r.model.requested # r.model.actual),
              cachingHits |-> CountIn(results,
                                      LAMBDA r : r.cachingInfo = Some(TRUE))]]

\* A caller logs a record.
LogUsage(record) ==
    /\ usageRecords' = logUsage(usageRecords, record, now)
    /\ UNCHANGED <<now, cache, defaultOptions, cacheCalls, lastCall, lastSet,
                   batchVars, chats>>
    /\ UNCHANGED routeVars
    /\ UNCHANGED <<created, hookVars, reply>>

GetMetrics(query) ==
    /\ reply' = [op |-> "getMetrics", query |-> query,
                 metrics |-> getMetrics(usageRecords, query)]
    /\ UNCHANGED <<now, cache, defaultOptions, cacheCalls, lastCall, lastSet,
                   batchVars, chats>>
    /\ UNCHANGED routeVars
    /\ UNCHANGED <<created, hookVars, usageRecords>>

\* The records callers log: a completion, a completion by a fallback model,
\* a cache hit, a failure, and a completion through an endpoint.
MetricsRecords ==
    {Usage("alice", "m1", "m1", 1, TRUE, Some(FALSE)),
     Usage("alice", "m1", "m2", 1, TRUE, Some(FALSE)),
     Usage("bob", "m1", "m1", 0, TRUE, Some(TRUE)),
     Usage("bob", "m2", "m2", 0, FALSE, Absent),
     [Usage("alice", "m2", "m2", 1, TRUE, Absent) EXCEPT !.endpointId = Some("e1")]}

MetricsQueries ==
    {UsageQuery(Absent, Absent, Absent, Absent, Absent, Absent, Absent),
     UsageQuery(Some("alice"), Absent, Absent, Absent, Absent, Absent, Absent),
     UsageQuery(Some(""), Some(1), Absent, Absent, Absent, Absent, Absent),
     UsageQuery(Absent, Absent, Some(0), Absent, Absent, Absent, Absent),
     UsageQuery(Some("alice"), Some(1), Some(1), Absent, Absent, Absent, Absent),
     UsageQuery(Absent, Absent, Absent, Some(<<>>), Absent, Absent, Absent),
     UsageQuery(Absent, Absent, Absent, Some(<<"m2">>), Absent, Absent, Absent),
     UsageQuery(Some("bob"), Absent, Absent, Some(<<"m1", "m3">>), Absent, Absent, Absent),
     UsageQuery(Absent, Absent, Absent, Absent, Some("e1"), Absent, Absent),
     UsageQuery(Absent, Absent, Absent, Absent, Absent, Some(1), Absent),
     UsageQuery(Absent, Absent, Absent, Absent, Absent, Some(2), Some(1)),
     UsageQuery(Some("alice"), Absent, Absent, Absent, Absent, Some(0), Some(1)),
     UsageQuery(Some("alice"), Absent, Absent, Absent, Absent, Some(1), Some(0))}

\* The log is built first and queried afterwards: getMetrics leaves the
\* records as they are, so every pair of a log and a query is reached.
MetricsNext ==
    \/ \E record \in MetricsRecords :
          /\ Len(usageRecords) < MaxUsage
          /\ reply.op = "none"
          /\ LogUsage(record)
    \/ \E query \in MetricsQueries : GetMetrics(query)
    \/ now < MaxTime /\ reply.op = "none" /\ Tick

MetricsSpec == Init /\ [][MetricsNext]_vars

\* The indices of the logged records that match the filter of the query: a
\* field that is absent or empty constrains nothing.
Matching(query) ==
    {k \in DOMAIN usageRecords :
        LET record == usageRecords[k]
        IN  /\ query.userId \notin {Absent, Some("")}
                  => record.userId = query.userId[1]
            /\ query.startDate # Absent => record.timestamp >= query.startDate[1]
            /\ query.endDate # Absent => record.timestamp <= query.endDate[1]
            /\ query.models \notin {Absent, Some(<<>>)}
                  => \E i \in DOMAIN query.models[1] :
                        query.models[1][i] \in {record.model.requested,
                                                record.model.actual}
            /\ query.endpointId \notin {Absent, Some("")}
                  => record.endpointId = query.endpointId}

\* The step is an answer of getMetrics.
MetricsAnswered ==
    /\ reply'.op = "getMetrics"
    /\ usageRecords' = usageRecords
    /\ now' = now

\* C34: for any usage log and any filter {owner, start, end, models,
\* endpoint}, getMetrics aggregates exactly the records matching the
\* filter: totalRequests = successfulRequests + failedRequests = number of
\* matching records, the per-model counts sum to totalRequests, fallbacks =
\* number of matching records with requested model different from actual
\* model, and cachingHits = number of matching records with a cache hit.
C34_MetricsOverMatching ==
    [][(MetricsAnswered /\ reply'.query.limit = Absent /\ reply'.query.page = Absent)
          => LET metrics == reply'.metrics
                 matching == Matching(reply'.query)
             IN  /\ metrics.totalRequests = Cardinality(matching)
                 /\ metrics.totalRequests =
                       metrics.successfulRequests + metrics.failedRequests
                 /\ metrics.successfulRequests =
                       Cardinality({k \in matching : usageRecords[k].success})
                 /\ SumOver(metrics.modelUsage) = metrics.totalRequests
                 /\ \A m \in DOMAIN metrics.modelUsage :
                       metrics.modelUsage[m] =
                          Cardinality({k \in matching :
                                          usageRecords[k].model.requested = m})
                 /\ metrics.routingStats.fallbacks =
                       Cardinality({k \in matching :
                                       usageRecords[k].model.requested
                                          # usageRecords[k].model.actual})
                 /\ metrics.routingStats.cachingHits =
                       Cardinality({k \in matching :
                                       usageRecords[k].cachingInfo = Some(TRUE)})]_vars

\* Metrics were asked for alice over a log that holds a fallback of hers
\* and a cache hit of bob.
C34_Witness ==
    /\ reply.op = "getMetrics"
    /\ reply.query.userId = Some("alice")
    /\ reply.query.limit = Absent
    /\ reply.metrics.totalRequests = 1
    /\ reply.metrics.routingStats.fallbacks = 1
    /\ reply.metrics.routingStats.cachingHits = 0
    /\ Len(usageRecords) = 2
    /\ \E k \in DOMAIN usageRecords : usageRecords[k].cachingInfo = Some(TRUE)

\* The query without its pagination fields.
Unpaged(query) == [query EXCEPT !.limit = Absent, !.page = Absent]

\* C38: the aggregates returned by getMetrics do not depend on the
\* pagination fields of the query: for any usage log and filter, getMetrics
\* with limit and page set returns the same totals as getMetrics with the
\* same filter and no limit.
C38_MetricsIgnorePagination ==
    [][MetricsAnswered
          => reply'.metrics = getMetrics(usageRecords, Unpaged(reply'.query))]_vars

\* C35: every entry ever stored in the cache satisfies expiresAt >
\* createdAt, for every ttl value that can reach setCachedResponse through
\* its options argument or setDefaultOptions.
C35_ExpiresAfterCreated ==
    \A k \in DOMAIN cache : cache[k].expiresAt > cache[k].createdAt

\* C36: the modelId stored in a cache entry is the id of the actual model
\* that served the cached response (not the requested model when the
\* router fell back), so a usage record for a cache hit names the model
\* that really produced the answer and invalidation by model removes the
\* answers that model served.
C36_EntryNamesServingModel ==
    \A k \in DOMAIN cache : cache[k].modelId = cache[k].response.model

\* C37: in every reachable state of the batch processor, the processing
\* queue contains each batch id at most once and contains exactly the ids
\* of the batches whose stored status is pending; a batch that is
\* processing, completed or failed is never in the queue.
C37_QueueIsThePending ==
    /\ \A i, j \in DOMAIN processingQueue :
          processingQueue[i] = processingQueue[j] => i = j
    /\ {processingQueue[i] : i \in DOMAIN processingQueue}
          = {id \in DOMAIN batchRequests : batchRequests[id].status = "pending"}

\* One batch is being processed, one was cancelled while it waited and one
\* is still waiting.
C37_Witness ==
    /\ Len(processingQueue) = 1
    /\ \E id \in DOMAIN batchRequests : batchRequests[id].status = "processing"
    /\ \E id \in DOMAIN batchRequests :
          /\ batchRequests[id].status = "failed"
          /\ batchRequests[id].error = Some("Batch cancelled by user")

\* The children of the batches of userId that have settled so far with
\* (ok) or without (~ok) a response.
SettledChildren(userId, ok) ==
    SumOver([b \in {b \in DOMAIN batchRequests : batchRequests[b].userId = userId} |->
        IF b \in DOMAIN runs
        THEN Cardinality({j \in DOMAIN runs[b].children :
                            runs[b].children[j].st
                               = IF ok THEN "fulfilled" ELSE "rejected"})
        ELSE IF batchRequests[b].results # Absent
        THEN CountIn(batchRequests[b].results[1],
                     LAMBDA r : HasError(r) = ~ok)
        ELSE 0])

\* C39: every batch child that settles appends exactly one usage record for
\* the batch owner: success = true when the child produced a response (from
\* upstream or from the cache) and success = false when it failed; so after
\* a batch completes, the number of usage records it added equals its
\* requestCount.
C39_OneRecordPerChild ==
    \A userId \in Users, ok \in BOOLEAN :
        Cardinality({i \in DOMAIN usageRecords :
                        /\ usageRecords[i].userId = userId
                        /\ usageRecords[i].success = ok})
           = SettledChildren(userId, ok)

====
